---- MODULE Spec2Model ----
(***************************************************************************)
(* A model of the Monte-Carlo sample generator of CEAuto                   *)
(* (CEAuto/sample_generators/mc_generators.py), of the legacy canonical    *)
(* handler (CEAuto/ce_handler/mc_handler.py) and of the composition-space  *)
(* coordinate translation exercised by tests/test_comp_space.py.           *)
(***************************************************************************)
EXTENDS Integers, Sequences, FiniteSets, TLC

VARIABLES
    counts,             \* CanonicalSampleGenerator.counts, as passed in (tenths)
    remove_decorations, \* McSampleGenerator.remove_decorations
    eci,                \* the cluster expansion self.ce (its one coefficient)
    heat_temp_series,   \* McSampleGenerator.heat_temp_series
    gs_occu,            \* McSampleGenerator._gs_occu (<<>> is None)
    sampler,            \* McSampleGenerator._sampler: "None" or its step type
    samples,            \* self.sampler.samples: the saved occupations
    pc,                 \* position of the running call
    op,                 \* the public method that is running / ran last
    arg_prev,           \* previous_sampled_structures
    arg_ns,             \* num_samples
    ti,                 \* index of the next temperature of heat_temp_series
    init_occu,          \* the local init_occu
    rand_occus,         \* the local rand_occus
    ret_occu,           \* value returned by get_ground_state_occupancy
    ret_strs,           \* value returned by the structure-returning methods
    status,             \* "none", "running", "ok" or the exception raised
    examined,           \* candidates examined by the de-duplication loop
    accepted,           \* new_id of every candidate appended to new_strs
    runs,               \* sampler runs made by the current call, in order
    cached,             \* whether _gs_occu was set when the call started
    nAnneal             \* number of sampler.anneal invocations so far

\* The legacy CanonicalmcHandler.
VARIABLES
    h_build,            \* how the names the module leaves undefined resolve
    h_int_comp,         \* CanonicalmcHandler.int_comp
    h_arg_gs,           \* the gs_occu argument (<<>> is None)
    h_pc,               \* "new", "ready" (constructed) or "failed"
    h_status,           \* "none", "ok" or the exception raised
    h_gs_occu,          \* MCHandler._gs_occu
    h_samples,          \* self._sampler.samples
    h_ret,              \* occupation returned by get_ground_state
    h_unfrozen,         \* list returned by get_unfreeze_sample (<<>> before)
    h_nAnneal           \* number of sampler.anneal invocations so far

\* CompSpace.translate_format.
VARIABLES
    xl_sc,              \* sc_size
    xl_hist             \* the coordinate held, in each format it went through

genVars == <<counts, remove_decorations, eci, heat_temp_series, gs_occu, sampler, samples, pc,
             op, arg_prev, arg_ns, ti, init_occu, rand_occus, ret_occu,
             ret_strs, status, examined, accepted, runs, cached, nAnneal>>

hVars == <<h_build, h_int_comp, h_arg_gs, h_pc, h_status, h_gs_occu,
           h_samples, h_ret, h_unfrozen, h_nAnneal>>

xlVars == <<xl_sc, xl_hist>>

\* One call of a function of utils/math_utils.py or of the composition space.
VARIABLES
    m_fn,               \* the function called
    m_args,             \* its arguments
    m_pc,               \* "new" before the call, "done" after it, "off"
    m_out,              \* the value returned ("None" when nothing is)
    m_status            \* "none", "ok" or the exception raised

mVars == <<m_fn, m_args, m_pc, m_out, m_status>>

\* The semigrand sample generator.
VARIABLES
    sg_bits,            \* [sl.species for sl in self.sublattices]
    sg_heat,            \* len(self.heat_temp_series)
    sg_sampler,         \* SemigrandSampleGenerator._sampler: "None" or its step type
    sg_gs,              \* whether _gs_occu is set
    sg_runs,            \* sampler runs so far: <<kind, step type of the sampler>>
    sg_builds,          \* number of Sampler.from_ensemble calls so far
    sg_calls            \* number of public calls so far

sgVars == <<sg_bits, sg_heat, sg_sampler, sg_gs, sg_runs, sg_builds, sg_calls>>

\* The data wrangler.
VARIABLES
    wr_lib,             \* whether process_entry fills the entry given or a new one
    wr_entries,         \* CeDataWrangler._entries
    wr_before,          \* _entries when the last add_entry started
    wr_arg,             \* the structure of the entry of the last add_entry
    wr_status,          \* "none", "ok" or the exception raised by the last call
    wr_calls            \* number of add_entry calls so far

wrVars == <<wr_lib, wr_entries, wr_before, wr_arg, wr_status, wr_calls>>

\* The calculation manager.
VARIABLES
    bm_time_limit,      \* BaseManager.time_limit
    bm_check_interval,  \* BaseManager.check_interval
    bm_after,           \* data_manager.schecker.after("calc")
    bm_status0,         \* calc_status of every entry before the call
    bm_status,          \* calc_status of every entry
    bm_pc,              \* "new", "waiting" (inside the while loop) or "done"
    bm_eids,            \* the local eids
    bm_submitted,       \* entries handed to _submit_all
    bm_queue,           \* entries in the queue
    bm_t_quota,         \* the local t_quota
    bm_killed,          \* whether kill_tasks was called
    bm_ret,             \* <<value returned>>, <<>> before the return
    bm_exc,             \* "none" or the exception raised
    bm_n_submits,       \* calls of _submit_all so far
    bm_n_checks,        \* n_checks: calls of entree_in_queue so far
    bm_slept            \* time spent in time.sleep so far

bmVars == <<bm_time_limit, bm_check_interval, bm_after, bm_status0, bm_status,
            bm_pc, bm_eids, bm_submitted, bm_queue, bm_t_quota, bm_killed,
            bm_ret, bm_exc, bm_n_submits, bm_n_checks, bm_slept>>

procVars == <<sgVars, wrVars, bmVars>>

lateVars == <<mVars, procVars>>

vars == <<genVars, hVars, xlVars, lateVars>>

----------------------------------------------------------------------------
(* Bounds of the model.                                                    *)

MaxAnneal == 2
MaxNumSamples == 2
MaxTranslations == 2
\* Largest magnitude, in halves, of an argument of GCD, LCM and their lists.
MaxAbsHalves == 6
\* Longest list handed to GCD_list and LCM_list.
MaxListLen == 3
\* Largest dim_limiter handed to rationalize_number.
MaxDimLimiter == 5
\* Longest normal vector handed to get_integer_grid.
MaxGridDim == 3
\* Largest magnitude of a component of that vector and of right_side.
MaxGridAbs == 2
\* Largest magnitude of a component of the normal vector handed to
\* get_integer_basis.
MaxNormAbs == 3
\* Largest number of species an operation handed to get_n_links removes,
\* and the largest number it adds.
MaxMoved == 2

----------------------------------------------------------------------------
(* The generator's configuration.                                          *)

\* self.sc_size: primitive cells per supercell
ScSize == 2
\* self.num_steps_anneal, self.num_steps_heat
NumStepsAnneal == 1
NumStepsHeat == 1
\* self.anneal_temp_series (strictly decreasing), self.heat_temp_series
AnnealTemps == <<3200, 100>>
HeatTemps == <<500, 1500>>
\* A heat_temp_series of LongLadderLen temperatures, 10 K apart.
LongLadderLen == 90
LongLadder == [i \in 1..LongLadderLen |-> 500 + 10 * i]

\* Allowed species of the two primitive-cell sites (one per sublattice).
Bits == << <<"Mn2+", "Mn3+">>, <<"O2-", "F-">> >>

NumSublat == Len(Bits)
NumSites == NumSublat * ScSize
Sites == 1..NumSites

Max(a, b) == IF a >= b THEN a ELSE b

RECURSIVE SumSeq(_)
SumSeq(s) == IF s = <<>> THEN 0 ELSE s[1] + SumSeq(Tail(s))

\* Supercell sites of sublattice sl: prim site p owns p*sc_size .. (p+1)*sc_size-1.
SublatSites(sl) == {(sl - 1) * ScSize + k : k \in 1..ScSize}
SublatOf(s) == ((s - 1) \div ScSize) + 1
CellOf(s) == ((s - 1) % ScSize) + 1
SiteAt(sl, cell) == (sl - 1) * ScSize + cell

\* Encoded occupations: one species code (0-based) per supercell site.
Occupations ==
    {o \in [Sites -> 0..1] : \A s \in Sites : o[s] < Len(Bits[SublatOf(s)])}

\* Number of each species on each sublattice of an encoded occupation.
SpeciesStat(occu) ==
    [sl \in 1..NumSublat |->
        [c \in 1..Len(Bits[sl]) |->
            Cardinality({s \in SublatSites(sl) : occu[s] = c - 1})]]

----------------------------------------------------------------------------
(* Collaborators: counts, initial occupation, kernel, energy, decoder,     *)
(* comparator.                                                             *)

\* np.round on a non-negative number given in tenths (round half to even).
RoundTenths(t) ==
    LET q == t \div 10
        r == t % 10
    IN  IF r < 5 THEN q
        ELSE IF r > 5 THEN q + 1
        ELSE IF q % 2 = 0 THEN q ELSE q + 1

\* self.counts = np.round(counts).astype(int)
CanonicalCounts(c) ==
    [sl \in 1..Len(c) |-> [k \in 1..Len(c[sl]) |-> RoundTenths(c[sl][k])]]

\* The composition does not fill some sublattice.
CountsMismatch(cnt) ==
    \E sl \in 1..NumSublat : SumSeq(cnt[sl]) # Cardinality(SublatSites(sl))

\* get_random_occupancy_from_counts: any occupation with exactly these counts.
RandomOccupancies(cnt) == {o \in Occupations : SpeciesStat(o) = cnt}

SwapMoves(o) ==
    {[o EXCEPT ![p[1]] = o[p[2]], ![p[2]] = o[p[1]]] :
        p \in {q \in Sites \X Sites :
                 SublatOf(q[1]) = SublatOf(q[2]) /\ o[q[1]] # o[q[2]]}}

FlipMoves(o) ==
    {[o EXCEPT ![p[1]] = p[2]] :
        p \in {q \in Sites \X (0..1) :
                 q[2] < Len(Bits[SublatOf(q[1])]) /\ q[2] # o[q[1]]}}

\* One Metropolis step of the kernel: the proposal is rejected or accepted.
Kernel(o, step) ==
    {o} \cup (IF step = "swap" THEN SwapMoves(o) ELSE FlipMoves(o))

RECURSIVE Reach(_, _, _)
Reach(o, k, step) ==
    IF k = 0 THEN {o}
    ELSE UNION {Kernel(m, step) : m \in Reach(o, k - 1, step)}

\* The traces a run can save: n samples, thin kernel steps apart.
RECURSIVE Chains(_, _, _, _)
Chains(o, n, thin, step) ==
    IF n = 0 THEN {<<>>}
    ELSE UNION {{<<m>> \o c : c \in Chains(m, n - 1, thin, step)} :
                   m \in Reach(o, thin, step)}

\* Enthalpy of an occupation under the cluster expansion: eci per cell whose
\* two sites carry the same species code.
Enthalpy(o) ==
    eci * Cardinality({c \in 1..ScSize : o[SiteAt(1, c)] = o[SiteAt(2, c)]})

\* samples.get_minimum_enthalpy_occupancy(): the first sample of least enthalpy.
MinEnthalpyOccupancy(smp) ==
    LET best == CHOOSE i \in 1..Len(smp) :
                   /\ \A j \in 1..Len(smp) : Enthalpy(smp[i]) <= Enthalpy(smp[j])
                   /\ \A j \in 1..(i - 1) : Enthalpy(smp[j]) > Enthalpy(smp[i])
    IN  smp[best]

\* processor.structure_from_occupancy: the species on every site.
StructureFromOccupancy(o) == [s \in Sites |-> Bits[SublatOf(s)][o[s] + 1]]

\* A species without its decoration (oxidation state).
Element(sp) ==
    CASE sp = "Mn2+" -> "Mn"
      [] sp = "Mn3+" -> "Mn"
      [] sp = "O2-" -> "O"
      [] sp = "F-" -> "F"

Undecorated(str) == [s \in Sites |-> Element(str[s])]

\* A structure shifted by k cells (a pure translation of the supercell).
Translated(str, k) ==
    [s \in Sites |-> str[SiteAt(SublatOf(s), ((CellOf(s) - 1 + k) % ScSize) + 1)]]

\* is_duplicate(s1, s2, remove_decorations): symmetrically equivalent.
IsDuplicate(s1, s2, rm) ==
    LET a == IF rm THEN Undecorated(s1) ELSE s1
        b == IF rm THEN Undecorated(s2) ELSE s2
    IN  \E k \in 0..(ScSize - 1) : Translated(a, k) = b

----------------------------------------------------------------------------
(* McSampleGenerator                                                       *)

\* Variant with the guard dropped: anneal on every call.
NeedsAnneal_Always == TRUE

\* if self._gs_occu is None
NeedsAnneal == gs_occu = <<>>

\* Variant: the single-site step of the semigrand sampler.
CanonicalStepType_Flip == "flip"

\* CanonicalSampleGenerator.sampler: Sampler.from_ensemble with no step_type.
CanonicalStepType == "swap"

\* thin_by of get_unfrozen_sample
ThinBy(ns) == Max(1, (Len(heat_temp_series) * NumStepsHeat) \div (ns * 10))

\* samples.get_occupancies(discard=n_samples // 2)
Retained(smp) == SubSeq(smp, (Len(smp) \div 2) + 1, Len(smp))

\* Variant: compared with previous_sampled_structures only.
IsDupe_PrevOnly(prev, new, str) ==
    \E k \in 1..Len(prev) : IsDuplicate(prev[k], str, remove_decorations)

\* Variant: decorations always removed before comparing.
IsDupe_Undecorated(prev, new, str) ==
    \E k \in 1..Len(prev \o new) : IsDuplicate((prev \o new)[k], str, TRUE)

\* is new_str a duplicate of a structure of previous + new_strs
IsDupe(prev, new, str) ==
    \E k \in 1..Len(prev \o new) :
        IsDuplicate((prev \o new)[k], str, remove_decorations)

\* Variant: the break taken one structure late.
StopNow_Late(new, ns) == Len(new) > ns

\* if len(new_strs) == num_samples: break
StopNow(new, ns) == Len(new) = ns

\* The de-duplication loop over rand_strs from candidate i on.
RECURSIVE Dedup(_, _, _, _, _, _)
Dedup(strs, prev, ns, i, new, at) ==
    IF i > Len(strs) THEN [new |-> new, at |-> at, examined |-> i - 1]
    ELSE LET dupe == IsDupe(prev, new, strs[i])
             new2 == IF dupe THEN new ELSE Append(new, strs[i])
             at2 == IF dupe THEN at ELSE Append(at, i)
         IN  IF StopNow(new2, ns)
             THEN [new |-> new2, at |-> at2, examined |-> i]
             ELSE Dedup(strs, prev, ns, i + 1, new2, at2)

\* Control once get_ground_state_occupancy() has returned g inside method o.
Resume(o, g) ==
    IF o = "unfrozen"
    THEN /\ pc' = "heat"
         /\ ti' = 1
         /\ init_occu' = g
         /\ status' = "running"
         /\ ret_occu' = <<>>
         /\ ret_strs' = <<>>
    ELSE /\ pc' = "idle"
         /\ ti' = 0
         /\ init_occu' = <<>>
         /\ status' = "ok"
         /\ ret_occu' = IF o = "gs_occu" THEN g ELSE <<>>
         /\ ret_strs' = IF o = "gs_struct" THEN <<StructureFromOccupancy(g)>>
                        ELSE <<>>

\* A public method is called; it reaches get_ground_state_occupancy first.
Begin(o, prev, ns) ==
    /\ pc = "idle"
    /\ op' = o
    /\ arg_prev' = prev
    /\ arg_ns' = ns
    /\ runs' = <<>>
    /\ cached' = (gs_occu # <<>>)
    /\ rand_occus' = <<>>
    /\ examined' = 0
    /\ accepted' = <<>>
    /\ IF NeedsAnneal
       THEN IF CountsMismatch(CanonicalCounts(counts))
            THEN /\ pc' = "idle"
                 /\ ti' = 0
                 /\ init_occu' = <<>>
                 /\ status' = "ValueError"
                 /\ ret_occu' = <<>>
                 /\ ret_strs' = <<>>
            ELSE /\ \E o0 \in RandomOccupancies(CanonicalCounts(counts)) :
                        init_occu' = o0
                 /\ pc' = "anneal"
                 /\ ti' = 0
                 /\ status' = "running"
                 /\ ret_occu' = <<>>
                 /\ ret_strs' = <<>>
       ELSE Resume(o, gs_occu)
    /\ UNCHANGED <<counts, remove_decorations, eci, heat_temp_series, gs_occu, sampler,
                   samples, nAnneal>>

\* Representative structures a caller may already hold.
RefOccuA == [s \in Sites |-> IF CellOf(s) = 1 THEN 1 ELSE 0]
RefOccuB == [s \in Sites |-> IF CellOf(s) = SublatOf(s) THEN 1 ELSE 0]
PrevChoices ==
    {<<>>, <<StructureFromOccupancy(RefOccuA)>>,
     <<StructureFromOccupancy(RefOccuB)>>,
     <<StructureFromOccupancy(RefOccuA), StructureFromOccupancy(RefOccuB)>>}

GetGroundStateOccupancy == Begin("gs_occu", <<>>, 0)

GetGroundStateStructure == Begin("gs_struct", <<>>, 0)

GetUnfrozenSample ==
    \E prev \in PrevChoices, ns \in 1..MaxNumSamples : Begin("unfrozen", prev, ns)

\* sampler.anneal over the whole ladder, then "Save updates".
Anneal ==
    /\ pc = "anneal"
    /\ nAnneal < MaxAnneal
    /\ LET st == IF sampler = "None" THEN CanonicalStepType ELSE sampler
       IN  /\ sampler' = st
           /\ \E ch \in Chains(init_occu, Len(AnnealTemps) * NumStepsAnneal, 1, st) :
                 /\ gs_occu' = MinEnthalpyOccupancy(ch)
                 /\ Resume(op, MinEnthalpyOccupancy(ch))
    /\ samples' = <<>>
    /\ nAnneal' = nAnneal + 1
    /\ runs' = Append(runs, [kind |-> "anneal", T |-> AnnealTemps[Len(AnnealTemps)]])
    /\ UNCHANGED <<counts, remove_decorations, eci, heat_temp_series, op, arg_prev, arg_ns,
                   rand_occus, examined, accepted, cached>>

\* Variant: the container is not cleared before the run.
SamplesAfterRun_NoClear(old, saved) == old \o saved

\* samples.clear() followed by sampler.run(...): the container holds the
\* occupations saved by this run only.
SamplesAfterRun(old, saved) == saved

\* What one run of the loop does: sampler.run(2 * num_steps_heat, thin_by)
\* from start saves a sample every thin_by steps; kept_at are the steps of
\* the samples that get_occupancies(discard=n_samples // 2) returns, last
\* is the occupation the next run starts from.
HeatRecord(T, thin, start, smp) ==
    [kind |-> "heat", T |-> T, nsteps |-> 2 * NumStepsHeat, thin_by |-> thin,
     start |-> start,
     saved |-> (2 * NumStepsHeat) \div thin,
     kept_at |-> Retained([k \in 1..((2 * NumStepsHeat) \div thin) |-> k * thin]),
     last |-> IF smp = <<>> THEN <<>> ELSE smp[Len(smp)]]

\* One pass of the loop over heat_temp_series.
HeatRun ==
    /\ pc = "heat"
    /\ LET thin == ThinBy(arg_ns)
           n == (2 * NumStepsHeat) \div thin
       IN  IF n = 0
           THEN /\ samples' = <<>>
                /\ status' = "IndexError"
                /\ pc' = "idle"
                /\ runs' = Append(runs, HeatRecord(heat_temp_series[ti], thin,
                                                   init_occu, <<>>))
                /\ UNCHANGED <<ti, init_occu, rand_occus>>
           ELSE \E ch \in Chains(init_occu, n, thin, sampler) :
                   /\ samples' = SamplesAfterRun(samples, ch)
                   /\ init_occu' = samples'[Len(samples')]
                   /\ rand_occus' = rand_occus \o Retained(samples')
                   /\ runs' = Append(runs, HeatRecord(heat_temp_series[ti], thin,
                                                      init_occu, samples'))
                   /\ status' = status
                   /\ IF ti = Len(heat_temp_series)
                      THEN pc' = "dedup" /\ ti' = ti
                      ELSE pc' = "heat" /\ ti' = ti + 1
    /\ UNCHANGED <<counts, remove_decorations, eci, heat_temp_series, gs_occu,
                   sampler, op, arg_prev, arg_ns, ret_occu, ret_strs, examined,
                   accepted, cached, nAnneal>>

\* Symmetry deduplication and return.
Deduplicate ==
    /\ pc = "dedup"
    /\ LET strs == [i \in 1..Len(rand_occus) |->
                       StructureFromOccupancy(rand_occus[i])]
           r == Dedup(strs, arg_prev, arg_ns, 1, <<>>, <<>>)
       IN  /\ ret_strs' = r.new
           /\ accepted' = r.at
           /\ examined' = r.examined
    /\ pc' = "idle"
    /\ status' = "ok"
    /\ UNCHANGED <<counts, remove_decorations, eci, heat_temp_series, gs_occu, sampler, samples,
                   op, arg_prev, arg_ns, ti, init_occu, rand_occus, ret_occu,
                   runs, cached, nAnneal>>

\* Compositions a caller may supply, in the "counts" format, in tenths.
CountsChoices ==
    { << <<10 * (ScSize - 1), 10>>, <<10 * (ScSize - 1), 10>> >>,
      << <<10 * ScSize, 10>>, <<10 * (ScSize - 1), 10>> >>,
      << <<10 * (ScSize - 1) - 4, 6>>, <<10 * (ScSize - 1), 10>> >> }

GenIdle ==
    /\ gs_occu = <<>>
    /\ sampler = "None"
    /\ samples = <<>>
    /\ pc = "idle"
    /\ op = "none"
    /\ arg_prev = <<>>
    /\ arg_ns = 0
    /\ ti = 0
    /\ init_occu = <<>>
    /\ rand_occus = <<>>
    /\ ret_occu = <<>>
    /\ ret_strs = <<>>
    /\ status = "none"
    /\ examined = 0
    /\ accepted = <<>>
    /\ runs = <<>>
    /\ cached = FALSE
    /\ nAnneal = 0

\* A generator constructed with one of the ladders given.
GenInitWith(ladders) ==
    /\ counts \in CountsChoices
    /\ remove_decorations \in BOOLEAN
    /\ eci \in {-1, 1}
    /\ heat_temp_series \in ladders
    /\ GenIdle

GenInit == GenInitWith({HeatTemps})

\* No generator: only the cluster expansion exists.
GenOff ==
    /\ counts = <<>>
    /\ heat_temp_series = <<>>
    /\ remove_decorations = FALSE
    /\ eci \in {-1, 1}
    /\ GenIdle

----------------------------------------------------------------------------
(* The legacy handler: CanonicalmcHandler of ce_handler/mc_handler.py.      *)
(* The module reads names it never binds (n_assigned, Sampler, ensemble,    *)
(* anneal_series).  h_build = "as_written" raises at each such read;        *)
(* h_build = "names_bound" binds n_assigned to 0 at the start of every      *)
(* sublattice and the other names to the objects of the same name.          *)

\* Variant: the composition is checked also when gs_occu is given.
KeepsGivenGroundState_Never(g) == FALSE

\* gs_occu or self._initialize_occu_from_int_comp(...): the left operand wins
\* when it is a non-empty list.
KeepsGivenGroundState(g) == g # <<>>

\* _initialize_occu_from_int_comp: the exception raised ("" when none) and
\* the occupations it can return.
InitializeOccuFromIntComp(int_comp, build) ==
    IF build = "as_written"
    THEN [err |-> IF SumSeq(int_comp[1]) # Cardinality(SublatSites(1))
                  THEN "ValueError" ELSE "UnboundLocalError",
          occus |-> {}]
    ELSE IF CountsMismatch(int_comp)
         THEN [err |-> "ValueError", occus |-> {}]
         ELSE [err |-> "", occus |-> RandomOccupancies(int_comp)]

\* CanonicalmcHandler.__init__
HConstruct ==
    /\ h_pc = "new"
    /\ IF KeepsGivenGroundState(h_arg_gs)
       THEN /\ h_gs_occu' = h_arg_gs
            /\ IF h_build = "as_written"
               THEN h_pc' = "failed" /\ h_status' = "NameError"
               ELSE h_pc' = "ready" /\ h_status' = "ok"
       ELSE LET r == InitializeOccuFromIntComp(h_int_comp, h_build)
            IN  IF r.err # ""
                THEN /\ h_pc' = "failed"
                     /\ h_status' = r.err
                     /\ h_gs_occu' = <<>>
                ELSE /\ \E o \in r.occus : h_gs_occu' = o
                     /\ h_pc' = "ready"
                     /\ h_status' = "ok"
    /\ UNCHANGED <<h_build, h_int_comp, h_arg_gs, h_samples, h_ret, h_unfrozen,
                   h_nAnneal>>

\* MCHandler.get_ground_state
HGetGroundState ==
    /\ h_pc = "ready"
    /\ h_nAnneal < MaxAnneal
    /\ \E ch \in Chains(h_gs_occu, Len(AnnealTemps) * NumStepsAnneal, 1, "swap") :
          /\ h_samples' = ch
          /\ h_gs_occu' = MinEnthalpyOccupancy(ch)
          /\ h_ret' = MinEnthalpyOccupancy(ch)
    /\ h_nAnneal' = h_nAnneal + 1
    /\ h_status' = "ok"
    /\ UNCHANGED <<h_build, h_int_comp, h_arg_gs, h_pc, h_unfrozen>>

\* The loop over unfreeze_series from the occupation o with k temperatures
\* to go: an equilibration run, then a generation run from its last
\* occupation; the next temperature starts from that same occupation.
RECURSIVE UnfreezeRuns(_, _)
UnfreezeRuns(o, k) ==
    IF k = 0 THEN {[occus |-> <<>>, samples |-> <<>>]}
    ELSE UNION {UNION {{[occus |-> smp \o rest.occus,
                         samples |-> IF k = 1 THEN smp ELSE rest.samples]
                        : rest \in UnfreezeRuns(eq[Len(eq)], k - 1)}
                       : smp \in Chains(eq[Len(eq)], NumStepsHeat, 1, "swap")}
                : eq \in Chains(o, NumStepsHeat, 1, "swap")}

\* Internal deduplication: an occupation is kept when its structure fits
\* none of the structures kept before it.
RECURSIVE InternalDedup(_, _, _)
InternalDedup(occus, kept, i) ==
    IF i > Len(occus) THEN kept
    ELSE InternalDedup(occus,
             IF \E j \in 1..Len(kept) :
                    IsDuplicate(StructureFromOccupancy(occus[i]),
                                StructureFromOccupancy(kept[j]), FALSE)
             THEN kept ELSE Append(kept, occus[i]),
             i + 1)

\* MCHandler.get_unfreeze_sample
HGetUnfreezeSample ==
    /\ h_pc = "ready"
    /\ h_nAnneal < MaxAnneal
    /\ \E ch \in Chains(h_gs_occu, Len(AnnealTemps) * NumStepsAnneal, 1, "swap") :
          \E sa_occu \in {MinEnthalpyOccupancy(ch)} :
          \E r \in UnfreezeRuns(sa_occu, Len(HeatTemps)) :
              /\ h_gs_occu' = sa_occu
              /\ h_samples' = r.samples
              /\ h_unfrozen' = InternalDedup(<<sa_occu>> \o r.occus, <<>>, 1)
    /\ h_nAnneal' = h_nAnneal + 1
    /\ h_status' = "ok"
    /\ UNCHANGED <<h_build, h_int_comp, h_arg_gs, h_pc, h_ret>>

IntCompChoices ==
    { << <<ScSize - 1, 1>>, <<ScSize - 1, 1>> >>,
      << <<ScSize, 1>>, <<ScSize - 1, 1>> >>,
      << <<ScSize - 1, 1>>, <<ScSize, 1>> >> }

HIdle ==
    /\ h_pc = "new"
    /\ h_status = "none"
    /\ h_gs_occu = <<>>
    /\ h_samples = <<>>
    /\ h_ret = <<>>
    /\ h_unfrozen = <<>>
    /\ h_nAnneal = 0

HInit ==
    /\ h_build \in {"as_written", "names_bound"}
    /\ h_int_comp \in IntCompChoices
    /\ h_arg_gs \in {<<>>} \cup RandomOccupancies(<< <<ScSize - 1, 1>>, <<ScSize - 1, 1>> >>)
    /\ HIdle

HOff ==
    /\ h_build = "names_bound"
    /\ h_int_comp = <<>>
    /\ h_arg_gs = <<>>
    /\ HIdle

----------------------------------------------------------------------------
(* CompSpace.translate_format on the space of tests/test_comp_space.py:     *)
(* sublattices [[Li+, Mn3+, Ti4+], [P3-, O2-]], one site each.              *)

XlCharges == << <<1, 3, 4>>, <<-3, -2>> >>
XlSlSizes == <<1, 1>>
\* The flip basis and three times the origin of the constrained space.
XlBasis == << <<0, 1, -1>>, <<-1, 2, 1>> >>
XlOrigin3 == <<2, 0, 0>>
XlScSizes == {5, 6}
Formats == {"unconstr", "constr", "compstat", "composition"}

RECURSIVE Gcd(_, _)
Gcd(a, b) == IF b = 0 THEN a ELSE Gcd(b, a % b)

\* Variant: the fraction truncated to an integer.
Fraction_Truncated(n, d) == <<n \div d, 1>>

\* n/d in lowest terms.
Fraction(n, d) == <<n \div Gcd(n, d), d \div Gcd(n, d)>>

\* Index of the first coordinate of sublattice sl in an unconstrained vector.
UOffset(sl) == SumSeq([i \in 1..(sl - 1) |-> Len(XlCharges[i]) - 1])

\* unconstr -> compstat: the last species of a sublattice takes the rest.
UcoordToCompstat(u, sc) ==
    [sl \in 1..Len(XlCharges) |->
        LET k == Len(XlCharges[sl])
            head == [i \in 1..(k - 1) |-> u[UOffset(sl) + i]]
        IN  Append(head, sc * XlSlSizes[sl] - SumSeq(head))]

RECURSIVE Flatten(_)
Flatten(ss) == IF ss = <<>> THEN <<>> ELSE ss[1] \o Flatten(Tail(ss))

\* compstat -> unconstr: the last species of each sublattice is dropped.
CompstatToUcoord(cs) ==
    Flatten([sl \in 1..Len(cs) |-> SubSeq(cs[sl], 1, Len(cs[sl]) - 1)])

\* compstat -> composition: the fraction of each species on its sublattice.
CompstatToComposition(cs, sc) ==
    [sl \in 1..Len(cs) |->
        [i \in 1..Len(cs[sl]) |-> Fraction(cs[sl][i], sc * XlSlSizes[sl])]]

\* composition -> compstat
CompositionToCompstat(comp, sc) ==
    [sl \in 1..Len(comp) |->
        [i \in 1..Len(comp[sl]) |->
            (comp[sl][i][1] * sc * XlSlSizes[sl]) \div comp[sl][i][2]]]

\* Variant: the origin not scaled by the supercell size.
UcoordToConstr_Unscaled(u, sc) ==
    LET v == [i \in 1..Len(u) |-> 3 * u[i] - XlOrigin3[i]]
        det == XlBasis[1][1] * XlBasis[2][2] - XlBasis[2][1] * XlBasis[1][2]
    IN  << (v[1] * XlBasis[2][2] - v[2] * XlBasis[2][1]) \div det,
           (XlBasis[1][1] * v[2] - XlBasis[1][2] * v[1]) \div det >>

\* unconstr -> constr: coefficients (in thirds) of u - sc * origin in the
\* flip basis.
UcoordToConstr(u, sc) ==
    LET v == [i \in 1..Len(u) |-> 3 * u[i] - sc * XlOrigin3[i]]
        det == XlBasis[1][1] * XlBasis[2][2] - XlBasis[2][1] * XlBasis[1][2]
    IN  << (v[1] * XlBasis[2][2] - v[2] * XlBasis[2][1]) \div det,
           (XlBasis[1][1] * v[2] - XlBasis[1][2] * v[1]) \div det >>

\* constr -> unconstr
ConstrToUcoord(c, sc) ==
    [i \in 1..Len(XlOrigin3) |->
        (sc * XlOrigin3[i] + c[1] * XlBasis[1][i] + c[2] * XlBasis[2][i]) \div 3]

ToUcoord(x, from, sc) ==
    CASE from = "unconstr" -> x
      [] from = "constr" -> ConstrToUcoord(x, sc)
      [] from = "compstat" -> CompstatToUcoord(x)
      [] from = "composition" -> CompstatToUcoord(CompositionToCompstat(x, sc))

FromUcoord(u, to, sc) ==
    CASE to = "unconstr" -> u
      [] to = "constr" -> UcoordToConstr(u, sc)
      [] to = "compstat" -> UcoordToCompstat(u, sc)
      [] to = "composition" -> CompstatToComposition(UcoordToCompstat(u, sc), sc)

\* CompSpace.translate_format(x, from_format, to_format, sc_size)
TranslateFormat(x, from, to, sc) == FromUcoord(ToUcoord(x, from, sc), to, sc)

ChargeOf(cs) ==
    SumSeq([sl \in 1..Len(cs) |->
               SumSeq([i \in 1..Len(cs[sl]) |-> cs[sl][i] * XlCharges[sl][i]])])

\* The valid integer compositions at supercell size sc, unconstrained form.
IntGrid(sc) ==
    {u \in [1..3 -> 0..sc] :
        /\ \A sl \in 1..Len(XlCharges) : \A i \in 1..Len(XlCharges[sl]) :
              UcoordToCompstat(u, sc)[sl][i] >= 0
        /\ ChargeOf(UcoordToCompstat(u, sc)) = 0}

XlTranslate ==
    /\ Len(xl_hist) <= MaxTranslations
    /\ \E to \in Formats :
          LET cur == xl_hist[Len(xl_hist)]
          IN  xl_hist' = Append(xl_hist,
                  [fmt |-> to, val |-> TranslateFormat(cur.val, cur.fmt, to, xl_sc)])
    /\ UNCHANGED xl_sc

XlInit ==
    /\ xl_sc \in XlScSizes
    /\ \E u \in IntGrid(xl_sc), f \in Formats :
          xl_hist = <<[fmt |-> f, val |-> FromUcoord(u, f, xl_sc)]>>

XlOff ==
    /\ xl_sc = 0
    /\ xl_hist = <<>>

----------------------------------------------------------------------------
(* utils/math_utils.py: GCD, LCM, their list reductions and                 *)
(* rationalize_number.  A real argument a is held as the integer 2a (in     *)
(* halves) for GCD and LCM, and as RatDen * a for rationalize_number.       *)

Abs(x) == IF x < 0 THEN -x ELSE x

\* round(a) != a
NotInteger(h) == h % 2 # 0

\* while a: a, b = b % a, a
RECURSIVE Euclid(_, _)
Euclid(a, b) == IF a = 0 THEN b ELSE Euclid(b % a, a)

\* GCD(a, b): [status, out]; arguments and result in halves.
GCD(a, b) ==
    IF NotInteger(a) \/ NotInteger(b)
    THEN [status |-> "ValueError", out |-> "None"]
    ELSE [status |-> "ok", out |-> 2 * Euclid(Abs(a \div 2), Abs(b \div 2))]

\* LCM(a, b): [status, out]; arguments and result in halves.
LCM(a, b) ==
    IF a = 0 /\ b = 0 THEN [status |-> "ok", out |-> 0]
    ELSE IF a = 0 /\ b # 0 THEN [status |-> "ok", out |-> b]
    ELSE IF a # 0 /\ b = 0 THEN [status |-> "ok", out |-> a]
    ELSE LET g == GCD(a, b)
         IN  IF g.status # "ok" THEN g
             ELSE [status |-> "ok",
                   out |-> 2 * (((a \div 2) * (b \div 2)) \div (g.out \div 2))]

\* reduce(f, l): the fold stops at the first call that raises.
RECURSIVE Reduce(_, _, _)
Reduce(fn, acc, rest) ==
    IF rest = <<>> THEN [status |-> "ok", out |-> acc]
    ELSE LET r == IF fn = "GCD" THEN GCD(acc, rest[1]) ELSE LCM(acc, rest[1])
         IN  IF r.status # "ok" THEN r ELSE Reduce(fn, r.out, Tail(rest))

\* GCD_list(l)
GCD_list(l) ==
    IF Len(l) < 1 THEN [status |-> "ok", out |-> "None"]
    ELSE IF Len(l) = 1 THEN [status |-> "ok", out |-> l[1]]
    ELSE Reduce("GCD", l[1], Tail(l))

\* LCM_list(l)
LCM_list(l) ==
    IF Len(l) < 1 THEN [status |-> "ok", out |-> "None"]
    ELSE IF Len(l) = 1 THEN [status |-> "ok", out |-> l[1]]
    ELSE Reduce("LCM", l[1], Tail(l))

\* Denominator of the grid the argument a of rationalize_number is drawn from.
RatDen == 12

\* Variant: int() of the product, without round().
RoundHalfEven_Truncated(n, d) == IF n >= 0 THEN n \div d ELSE -((-n) \div d)

\* round(n / d) for d > 0: nearest integer, ties to the even one.
RoundHalfEven(n, d) ==
    LET q == n \div d
        r == n % d
    IN  IF 2 * r < d THEN q
        ELSE IF 2 * r > d THEN q + 1
        ELSE IF q % 2 = 0 THEN q ELSE q + 1

\* abs(n / d - a) < dtol, with a = k / RatDen and dtol = tol[1] / tol[2].
Near(n, d, k, tol) == Abs(n * RatDen - d * k) * tol[2] < tol[1] * d * RatDen

\* for magnif in range(from, dim_limiter + 1): ... raise ValueError
RECURSIVE RationalizeFrom(_, _, _, _)
RationalizeFrom(magnif, k, dim_limiter, tol) ==
    IF magnif > dim_limiter THEN [status |-> "ValueError", out |-> "None"]
    ELSE LET a_prime == RoundHalfEven(magnif * k, RatDen)
         IN  IF Near(a_prime, magnif, k, tol)
             THEN [status |-> "ok", out |-> <<a_prime, magnif>>]
             ELSE RationalizeFrom(magnif + 1, k, dim_limiter, tol)

\* rationalize_number(a, dim_limiter, dtol)
rationalize_number(k, dim_limiter, tol) ==
    IF k = 0 THEN [status |-> "ok", out |-> <<0, 1>>]
    ELSE RationalizeFrom(1, k, dim_limiter, tol)

Halves == (-MaxAbsHalves)..MaxAbsHalves

HalfLists == UNION {[1..n -> Halves] : n \in 1..MaxListLen}

\* The values of a: the multiples of 1/RatDen between -3/2 and 3/2.
RatNums == (-18)..18

\* The values of dtol.
Tolerances == {<<1, 100>>, <<1, 8>>, <<1, 3>>}

NumberCalls ==
    [fn : {"GCD", "LCM"}, args : [1..2 -> Halves]]
    \cup [fn : {"GCD_list", "LCM_list"}, args : HalfLists]
    \cup [fn : {"rationalize_number"},
          args : RatNums \X (1..MaxDimLimiter) \X Tolerances]

MStart(calls) ==
    /\ \E c \in calls : m_fn = c.fn /\ m_args = c.args
    /\ m_pc = "new"
    /\ m_out = "None"
    /\ m_status = "none"

MReturn(fn, r) ==
    /\ m_pc = "new"
    /\ m_fn = fn
    /\ m_pc' = "done"
    /\ m_out' = r.out
    /\ m_status' = r.status
    /\ UNCHANGED <<m_fn, m_args>>

CallGCD == m_fn = "GCD" /\ MReturn("GCD", GCD(m_args[1], m_args[2]))
CallLCM == m_fn = "LCM" /\ MReturn("LCM", LCM(m_args[1], m_args[2]))
CallGCDList == m_fn = "GCD_list" /\ MReturn("GCD_list", GCD_list(m_args))
CallLCMList == m_fn = "LCM_list" /\ MReturn("LCM_list", LCM_list(m_args))
CallRationalize ==
    /\ m_fn = "rationalize_number"
    /\ MReturn("rationalize_number",
               rationalize_number(m_args[1], m_args[2], m_args[3]))

\* No call of this group is part of the run.
MOff ==
    /\ m_fn = "none"
    /\ m_args = <<>>
    /\ m_pc = "off"
    /\ m_out = "None"
    /\ m_status = "none"

----------------------------------------------------------------------------
(* utils/math_utils.py: get_integer_grid                                    *)

Front(s) == SubSeq(s, 1, Len(s) - 1)

\* right_side % k == 0 and right_side // k, for k != 0
Divisible(a, k) == Abs(a) % Abs(k) = 0
ExactDiv(a, k) ==
    IF (a >= 0) = (k > 0) THEN Abs(a) \div Abs(k) ELSE -(Abs(a) \div Abs(k))

\* grids.append(p_grid + [val]) for each p_grid
AppendEach(ps, val) == [i \in 1..Len(ps) |-> Append(ps[i], val)]

\* grids.append(p_grid + [0]); grids.append(p_grid + [1]) for each p_grid
AppendZeroOne(ps) ==
    [i \in 1..(2 * Len(ps)) |-> Append(ps[(i + 1) \div 2], (i + 1) % 2)]

RECURSIVE get_integer_grid(_, _, _)
RECURSIVE GridOverVals(_, _, _, _)

\* for val in range(val, limiters[-1][1] + 1): ...
GridOverVals(nv, rs, lim, val) ==
    LET d == Len(nv)
    IN  IF val > lim[d][2] THEN <<>>
        ELSE AppendEach(get_integer_grid(Front(nv), rs - val * nv[d],
                                          Front(lim)), val)
             \o GridOverVals(nv, rs, lim, val + 1)

\* get_integer_grid(subspc_normv, right_side, limiters), for d >= 1: the
\* list of points, in the order the code appends them.
get_integer_grid(nv, rs, lim) ==
    LET d == Len(nv)
        k == nv[d]
    IN  IF d = 1
        THEN IF k # 0
             THEN IF /\ Divisible(rs, k)
                     /\ ExactDiv(rs, k) >= lim[1][1]
                     /\ ExactDiv(rs, k) <= lim[1][2]
                  THEN << <<ExactDiv(rs, k)>> >>
                  ELSE <<>>
             ELSE IF rs = 0 THEN << <<0>>, <<1>> >> ELSE <<>>
        ELSE IF k # 0
             THEN GridOverVals(nv, rs, lim, lim[d][1])
             ELSE AppendZeroOne(get_integer_grid(Front(nv), rs, Front(lim)))

GridVals == (-MaxGridAbs)..MaxGridAbs

\* The (lower_bound, upper_bound) pairs a dimension is given.
LimiterChoices == {<<-1, 1>>, <<0, 2>>, <<2, 3>>}

GridCalls ==
    [fn : {"get_integer_grid"},
     args : UNION {[1..n -> GridVals] \X GridVals \X [1..n -> LimiterChoices]
                   : n \in 0..MaxGridDim}]

CallIntegerGrid ==
    /\ m_fn = "get_integer_grid"
    /\ MReturn("get_integer_grid",
               IF Len(m_args[1]) < 1
               THEN [status |-> "ValueError", out |-> "None"]
               ELSE [status |-> "ok",
                     out |-> get_integer_grid(m_args[1], m_args[2],
                                              m_args[3])])

----------------------------------------------------------------------------
(* utils/math_utils.py: get_integer_basis, formula_norm, get_n_links, and   *)
(* the minimal flip table the composition space derives from the basis.     *)

Sign(x) == IF x < 0 THEN -1 ELSE IF x > 0 THEN 1 ELSE 0

PosPart(x) == IF x > 0 THEN x ELSE 0

RECURSIVE MaxAbs(_)
MaxAbs(v) == IF v = <<>> THEN 0 ELSE Max(Abs(v[1]), MaxAbs(Tail(v)))

\* np.where(normal_vec ... 0)[0]: the indices with the given sign, ascending.
RECURSIVE IdsFrom(_, _, _)
IdsFrom(nv, sgn, i) ==
    IF i > Len(nv) THEN <<>>
    ELSE (IF Sign(nv[i]) = sgn THEN <<i>> ELSE <<>>) \o IdsFrom(nv, sgn, i + 1)

UnitVector(d, idx) == [i \in 1..d |-> IF i = idx THEN 1 ELSE 0]

\* Order of the sort keys (pairs), and sorted(): a stable sort by key.
KeyLeq(k1, k2) == k1[1] < k2[1] \/ (k1[1] = k2[1] /\ k1[2] <= k2[2])

RECURSIVE InsertSorted(_, _)
InsertSorted(s, x) ==
    IF s = <<>> THEN <<x>>
    ELSE IF KeyLeq(s[1].key, x.key) THEN <<s[1]>> \o InsertSorted(Tail(s), x)
    ELSE <<x>> \o s

RECURSIVE Sorted(_)
Sorted(s) ==
    IF s = <<>> THEN <<>> ELSE InsertSorted(Sorted(Front(s)), s[Len(s)])

\* formula_norm(v, sl_flips_list)
formula_norm(v, sl) ==
    SumSeq([g \in 1..Len(sl) |->
        SumSeq([j \in 1..Len(sl[g]) |-> PosPart(v[sl[g][j]])])
        + PosPart(-SumSeq([j \in 1..Len(sl[g]) |-> v[sl[g][j]]]))])

\* Determinant of a square matrix given by its rows.
Minor(mat, c) ==
    [r \in 1..(Len(mat) - 1) |->
        [j \in 1..(Len(mat) - 1) |-> mat[r + 1][IF j < c THEN j ELSE j + 1]]]

RECURSIVE Det(_)
Det(mat) ==
    IF Len(mat) = 0 THEN 1
    ELSE IF Len(mat) = 1 THEN mat[1][1]
    ELSE SumSeq([c \in 1..Len(mat) |->
            (IF c % 2 = 1 THEN 1 ELSE -1) * mat[1][c] * Det(Minor(mat, c))])

RECURSIVE SetToSeq(_)
SetToSeq(S) ==
    IF S = {} THEN <<>>
    ELSE LET x == CHOOSE x \in S : \A y \in S : x <= y
         IN  <<x>> \o SetToSeq(S \ {x})

Restrict(rows, cols) ==
    [r \in 1..Len(rows) |-> [j \in 1..Len(cols) |-> rows[r][cols[j]]]]

\* The column sets on which the rows have a non-zero determinant.
PivotColumns(rows) ==
    {S \in SUBSET (1..Len(rows[1])) :
        /\ Cardinality(S) = Len(rows)
        /\ Det(Restrict(rows, SetToSeq(S))) # 0}

\* np.linalg.matrix_rank(np.vstack(rows)) == len(rows)
FullRank(rows) == PivotColumns(rows) # {}

\* Variant: take the vectors of the pool as they come.
ChooseBasis_NoRankTest(pool, chosen, dr) == SubSeq(pool, 1, dr)

\* for v in basis_pool: ... if len(chosen_basis) == d_remain: break
RECURSIVE ChooseBasis(_, _, _)
ChooseBasis(pool, chosen, dr) ==
    IF pool = <<>> THEN chosen
    ELSE LET c2 == IF FullRank(Append(chosen, pool[1]))
                   THEN Append(chosen, pool[1]) ELSE chosen
         IN  IF Len(c2) = dr THEN c2 ELSE ChooseBasis(Tail(pool), c2, dr)

\* limiter_vectors, one for every pair i < j of components
LimiterVectors(ns) ==
    {LET lcm == (ns[p[1]] * ns[p[2]]) \div Euclid(ns[p[1]], ns[p[2]])
     IN  [c \in 1..Len(ns) |->
            IF c = p[1] THEN lcm \div ns[p[1]]
            ELSE IF c = p[2] THEN -(lcm \div ns[p[2]])
            ELSE 0]
     : p \in {q \in (1..Len(ns)) \X (1..Len(ns)) : q[1] < q[2]}}

\* Variant: the grid is limited to the origin.
Limiters_Origin(ns) == [c \in 1..Len(ns) |-> <<0, 0>>]

\* limiters = list(zip(limiter_lbs, limiter_ubs))
Limiters(ns) ==
    [c \in 1..Len(ns) |->
        <<CHOOSE lo \in {v[c] : v \in LimiterVectors(ns)} :
              \A v \in LimiterVectors(ns) : lo <= v[c],
          CHOOSE hi \in {v[c] : v \in LimiterVectors(ns)} :
              \A v \in LimiterVectors(ns) : hi >= v[c]>>]

\* sl_flips_list = [[i] for i in range(d)]
SingletonSl(d) == [i \in 1..d |-> <<i>>]

\* The value of a one-element set: names an intermediate result.
Only(S) == CHOOSE r \in S : TRUE

\* normal_vec = normal_vec // gcd, with gcd = GCD_list(normal_vec) or 1
ReducedNormal(normal_vec) ==
    LET g0 == GCD_list([i \in 1..Len(normal_vec) |-> 2 * normal_vec[i]]).out
              \div 2
    IN  [i \in 1..Len(normal_vec) |->
            ExactDiv(normal_vec[i], IF g0 = 0 THEN 1 ELSE g0)]

\* nv_sorted and order_sorted, as the pairs (value, position) in order
SortedTable(nv, non_zero_ids) ==
    Sorted([p \in 1..Len(non_zero_ids) |->
               [key |-> <<Abs(nv[non_zero_ids[p]]), 0>>, val |-> p]])

\* reverse_ordering and the signs: the vector of a point of the grid.
BasisOfPoint(point, nv, non_zero_ids, sorted_table) ==
    [i \in 1..Len(nv) |->
        IF nv[i] = 0 THEN 0
        ELSE (IF nv[i] < 0 THEN 1 ELSE -1)
             * point[CHOOSE c \in 1..Len(point) :
                        non_zero_ids[sorted_table[c].val] = i]]

\* basis_pool = sorted(basis_pool, key=(formula_norm, max(abs)))
BasisPool(integer_grid, nv, non_zero_ids, sorted_table, sl) ==
    Sorted([q \in 1..Len(integer_grid) |->
               Only({[key |-> <<formula_norm(b, sl), MaxAbs(b)>>, val |-> b]
                     : b \in {BasisOfPoint(integer_grid[q], nv, non_zero_ids,
                                           sorted_table)}})])

\* The part of get_integer_basis after the split by sign.
BasisOfSplit(nv, sl, zero_ids, non_zero_ids) ==
    LET d_all == IF \A i \in 1..Len(nv) : nv[i] = 0 THEN Len(nv)
                 ELSE Len(nv) - 1
        unit_basis == [k \in 1..Len(zero_ids) |-> UnitVector(Len(nv), zero_ids[k])]
    IN  IF d_all - Len(zero_ids) = 0 THEN unit_basis
        ELSE unit_basis \o
             Only({Only({Only({ChooseBasis([q \in 1..Len(basis_pool) |->
                                               basis_pool[q].val],
                                           <<>>, d_all - Len(zero_ids))
                               : basis_pool \in
                                   {BasisPool(integer_grid, nv, non_zero_ids,
                                              sorted_table, sl)}})
                         : integer_grid \in
                             {Only({get_integer_grid(nv_sorted, 0,
                                                     Limiters(nv_sorted))
                                    : nv_sorted \in
                                        {[c \in 1..Len(sorted_table) |->
                                             sorted_table[c].key[1]]}})}})
                   : sorted_table \in {SortedTable(nv, non_zero_ids)}})

\* get_integer_basis(normal_vec, sl_flips_list): the list of vectors.
get_integer_basis(normal_vec, sl_flips_list) ==
    Only({Only({BasisOfSplit(nv, sl, zero_ids, non_zero_ids)
                : zero_ids \in {IdsFrom(nv, 0, 1)},
                  non_zero_ids \in {IdsFrom(nv, -1, 1) \o IdsFrom(nv, 1, 1)}})
          : nv \in {ReducedNormal(normal_vec)},
            sl \in {IF sl_flips_list = <<>> THEN SingletonSl(Len(normal_vec))
                    ELSE sl_flips_list}})

\* The composition spaces of tests/test_comp_space.py, by the charges of
\* their species: [[Li+, Mn3+, Ti4+], [P3-, O2-]] and [[Li, Ag, vacancy]].
SpaceCharged == XlCharges
SpaceNeutral == << <<0, 0, 0>> >>

\* The position of species sp of sublattice sl in unconstrained coordinates.
ExcitationId(space, sl, sp) ==
    SumSeq([i \in 1..(sl - 1) |-> Len(space[i]) - 1]) + sp

\* chg_of_excitations and excitation_ids_by_sublat
ChgOfExcitations(space) ==
    Flatten([sl \in 1..Len(space) |->
        [sp \in 1..(Len(space[sl]) - 1) |->
            space[sl][sp] - space[sl][Len(space[sl])]]])

ExcitationIdsBySublat(space) ==
    [sl \in 1..Len(space) |->
        [sp \in 1..(Len(space[sl]) - 1) |-> ExcitationId(space, sl, sp)]]

IsChargeConstred(space) ==
    \E sl \in 1..Len(space) : \E sp \in 1..Len(space[sl]) : space[sl][sp] # 0

\* The change of every species count under the flip vector v.
FlipDelta(space, v) ==
    [sl \in 1..Len(space) |->
        [sp \in 1..Len(space[sl]) |->
            IF sp < Len(space[sl]) THEN v[ExcitationId(space, sl, sp)]
            ELSE -SumSeq([q \in 1..(Len(space[sl]) - 1) |->
                             v[ExcitationId(space, sl, q)]])]]

\* The operation of a flip vector: the species it removes and adds.
FlipOperation(space, v) ==
    [from |-> [sl \in 1..Len(space) |-> [sp \in 1..Len(space[sl]) |->
                  PosPart(-FlipDelta(space, v)[sl][sp])]],
     to |-> [sl \in 1..Len(space) |-> [sp \in 1..Len(space[sl]) |->
                  PosPart(FlipDelta(space, v)[sl][sp])]]]

\* CompSpace.min_flip_table
MinFlipTable(space) ==
    LET basis == get_integer_basis(ChgOfExcitations(space),
                                   ExcitationIdsBySublat(space))
    IN  [b \in 1..Len(basis) |-> FlipOperation(space, basis[b])]

RECURSIVE Factorial(_)
Factorial(n) == IF n < 1 THEN 1 ELSE n * Factorial(n - 1)

\* combinatorial_number(n, m); math.factorial raises on a negative argument.
CombinatorialDefined(n, m) == n >= 0 /\ m >= 0 /\ n - m >= 0
combinatorial_number(n, m) ==
    Factorial(n) \div (Factorial(m) * Factorial(n - m))

RECURSIVE ProdSeq(_)
ProdSeq(l) == IF l = <<>> THEN 1 ELSE l[1] * ProdSeq(Tail(l))

\* Placing the species counts ms one after another on n flipped sites:
\* the number of ways, and the sites left over.
RECURSIVE PlaceFrom(_, _, _)
PlaceFrom(n, ms, i) ==
    IF i > Len(ms) THEN [status |-> "ok", out |-> 1, left |-> n]
    ELSE IF ms[i] = 0 THEN PlaceFrom(n, ms, i + 1)
    ELSE IF ~CombinatorialDefined(n, ms[i])
         THEN [status |-> "ValueError", out |-> 0, left |-> n]
    ELSE LET r == PlaceFrom(n - ms[i], ms, i + 1)
         IN  [status |-> r.status,
              out |-> combinatorial_number(n, ms[i]) * r.out,
              left |-> r.left]

\* Variant: no direction ever raises.
OneWayRaises_Never(comp_stat, out, in) == FALSE

\* One direction of an operation raises: a factorial of a negative number
\* while taking or placing species, or a leftover on some sublattice
\* (if n != 0: raise ValueError).
OneWayRaises(comp_stat, out, in) ==
    \/ \E sl \in 1..Len(out) : \E sp \in 1..Len(out[sl]) :
           /\ out[sl][sp] # 0
           /\ ~CombinatorialDefined(comp_stat[sl][sp], out[sl][sp])
    \/ \E sl \in 1..Len(in) :
           PlaceFrom(SumSeq(out[sl]), in[sl], 1).status # "ok"
    \/ \E sl \in 1..Len(in) : PlaceFrom(SumSeq(out[sl]), in[sl], 1).left # 0

\* n_forward (or n_reverse) of one operation
NLinksOneWay(comp_stat, out, in) ==
    IF OneWayRaises(comp_stat, out, in)
    THEN [status |-> "ValueError", out |-> 0]
    ELSE [status |-> "ok",
          out |-> ProdSeq(Flatten([sl \in 1..Len(out) |->
                      [sp \in 1..Len(out[sl]) |->
                          combinatorial_number(comp_stat[sl][sp],
                                               out[sl][sp])]]))
                  * ProdSeq([sl \in 1..Len(in) |->
                                PlaceFrom(SumSeq(out[sl]), in[sl], 1).out])]

\* get_n_links(comp_stat, operations)
RECURSIVE get_n_links(_, _)
get_n_links(comp_stat, operations) ==
    IF operations = <<>> THEN [status |-> "ok", out |-> <<>>]
    ELSE LET operation == operations[1]
             n_forward == NLinksOneWay(comp_stat, operation.from, operation.to)
             n_reverse == NLinksOneWay(comp_stat, operation.to, operation.from)
             rest == get_n_links(comp_stat, Tail(operations))
         IN  IF n_forward.status # "ok" \/ n_reverse.status # "ok"
             THEN [status |-> "ValueError", out |-> "None"]
             ELSE IF rest.status # "ok" THEN rest
             ELSE [status |-> "ok",
                   out |-> <<n_forward.out, n_reverse.out>> \o rest.out]

NormVals == (-MaxNormAbs)..MaxNormAbs

\* The lengths of the normal vectors: up to the three excitations of the
\* space [[Li+, Mn3+, Ti4+], [P3-, O2-]].
NormDims == 1..3

\* sl_flips_list: None (<<>>), all components on one sublattice, or the
\* first two on one sublattice and the rest on another.
SlFlipsChoices(d) ==
    {<<>>, <<[i \in 1..d |-> i]>>}
    \cup (IF d >= 3 THEN {<<<<1, 2>>, [i \in 1..(d - 2) |-> i + 2]>>} ELSE {})

\* The operations handed to get_n_links on the charged space.
SpeciesCounts ==
    {c \in [1..3 -> 0..MaxMoved] \X [1..2 -> 0..MaxMoved] :
        SumSeq(c[1]) + SumSeq(c[2]) <= MaxMoved}

OperationChoices == [from : SpeciesCounts, to : SpeciesCounts]

\* comp_stat: a 6-cell and a 1-cell composition of the charged space.
CompStatChoices == {<< <<3, 1, 2>>, <<2, 4>> >>, << <<0, 1, 0>>, <<1, 0>> >>}

BasisCalls ==
    [fn : {"get_integer_basis"},
     args : UNION {[1..n -> NormVals] \X SlFlipsChoices(n)
                   : n \in NormDims}]
    \cup [fn : {"min_flip_table"}, args : {SpaceCharged, SpaceNeutral}]
    \cup [fn : {"get_n_links"},
          args : CompStatChoices
                 \X ({MinFlipTable(SpaceCharged)}
                     \cup {<<o>> : o \in OperationChoices}
                     \cup {Append(MinFlipTable(SpaceCharged), o)
                           : o \in OperationChoices})]

CallIntegerBasis ==
    /\ m_fn = "get_integer_basis"
    /\ MReturn("get_integer_basis",
               [status |-> "ok",
                out |-> get_integer_basis(m_args[1], m_args[2])])

CallMinFlipTable ==
    /\ m_fn = "min_flip_table"
    /\ MReturn("min_flip_table",
               [status |-> "ok", out |-> MinFlipTable(m_args)])

CallNLinks ==
    /\ m_fn = "get_n_links"
    /\ MReturn("get_n_links", get_n_links(m_args[1], m_args[2]))

\* A space whose only neutral composition is Li+ 2/3, Ti4+ 1/3 per O2-.
SpaceTwoCation == << <<1, 4>>, <<-2>> >>

\* CompSpace.min_sc_size of the space [[Li+, Mn3+, Ti4+], [P3-, O2-]].
MinScSize == 6

\* The species counts of a sublattice of sc sites: n counts of sum sc.
RECURSIVE CountVectors(_, _)
CountVectors(n, sc) ==
    IF n = 0 THEN (IF sc = 0 THEN {<<>>} ELSE {})
    ELSE UNION {{Append(c, k) : c \in CountVectors(n - 1, sc - k)} : k \in 0..sc}

\* The occupations of the first k sublattices of `space` at size sc.
RECURSIVE CompstatsUpTo(_, _, _)
CompstatsUpTo(space, sc, k) ==
    IF k = 0 THEN {<<>>}
    ELSE UNION {{Append(p, c) : c \in CountVectors(Len(space[k]), sc)}
                : p \in CompstatsUpTo(space, sc, k - 1)}

\* The charge-neutral integer compositions of `space` at supercell size sc.
NeutralCompstats(space, sc) ==
    {cs \in CompstatsUpTo(space, sc, Len(space)) :
        SumSeq(Flatten([sl \in 1..Len(space) |->
            [sp \in 1..Len(space[sl]) |-> space[sl][sp] * cs[sl][sp]]])) = 0}

\* Variant: every size below min_sc_size is refused.
GridInfeasible_BelowMinSize(space, sc) == sc < MinScSize

\* EnumerationInfeasible: no integer lattice point exists for the size.
GridInfeasible(space, sc) == NeutralCompstats(space, sc) = {}

\* CompSpace.int_grids(sc_size), in unconstrained coordinates.
int_grids(space, sc) ==
    IF GridInfeasible(space, sc)
    THEN [status |-> "EnumerationInfeasible", out |-> "None"]
    ELSE [status |-> "ok",
          out |-> {Flatten([sl \in 1..Len(space) |-> Front(cs[sl])])
                   : cs \in NeutralCompstats(space, sc)}]

IntGridsCalls ==
    [fn : {"int_grids"},
     args : {SpaceCharged, SpaceTwoCation} \X (1..MinScSize)]

CallIntGrids ==
    /\ m_fn = "int_grids"
    /\ MReturn("int_grids", int_grids(m_args[1], m_args[2]))

----------------------------------------------------------------------------
(* CEAuto/sample_generators/mc_generators.py: SemigrandSampleGenerator      *)

MaxSgCalls == 2

\* The species a sublattice may allow: <<class, oxi_state>>.
SgSpecies ==
    {<<"Element", 0>>, <<"Vacancy", 0>>,
     <<"Species", -1>>, <<"Species", 0>>, <<"Species", 2>>}

SgSublattices == {sl \in SgSpecies \X SgSpecies : sl[1] # sl[2]}

SgBits == {<<sl>> : sl \in SgSublattices} \cup (SgSublattices \X SgSublattices)

SgHeatLens == {1, 2}

\* Variant: the charge test never succeeds.
ChargeDecorated_Never(bits) == FALSE

\* The loop over itertools.chain(*bits) of the sampler property.
ChargeDecorated(bits) ==
    \E sl \in 1..Len(bits) : \E i \in 1..Len(bits[sl]) :
        /\ bits[sl][i][1] \notin {"Vacancy", "Element"}
        /\ bits[sl][i][2] # 0

\* step_type handed to Sampler.from_ensemble
SemigrandStepType(bits) ==
    IF ChargeDecorated(bits) THEN "table-flip" ELSE "flip"

\* SemigrandSampleGenerator.sampler, n times in a row, each followed by a
\* run of the given kinds: the sampler is built on the first access only.
RECURSIVE SgRunAll(_, _, _, _)
SgRunAll(kinds, smp, rs, nb) ==
    IF kinds = <<>> THEN [sampler |-> smp, runs |-> rs, builds |-> nb]
    ELSE LET st == IF smp = "None" THEN SemigrandStepType(sg_bits) ELSE smp
             b == IF smp = "None" THEN nb + 1 ELSE nb
         IN  SgRunAll(Tail(kinds), st, Append(rs, <<Head(kinds), st>>), b)

\* The sampler runs of get_ground_state_occupancy.
SgAnnealKinds == IF sg_gs THEN <<>> ELSE <<"anneal">>

SgGetGroundStateOccupancy ==
    /\ sg_calls < MaxSgCalls
    /\ LET r == SgRunAll(SgAnnealKinds, sg_sampler, sg_runs, sg_builds)
       IN  /\ sg_sampler' = r.sampler
           /\ sg_runs' = r.runs
           /\ sg_builds' = r.builds
    /\ sg_gs' = TRUE
    /\ sg_calls' = sg_calls + 1
    /\ UNCHANGED <<sg_bits, sg_heat>>

\* get_unfrozen_sample: the ground state, then one run per heat temperature.
SgGetUnfrozenSample ==
    /\ sg_calls < MaxSgCalls
    /\ LET r == SgRunAll(SgAnnealKinds \o [t \in 1..sg_heat |-> "heat"],
                         sg_sampler, sg_runs, sg_builds)
       IN  /\ sg_sampler' = r.sampler
           /\ sg_runs' = r.runs
           /\ sg_builds' = r.builds
    /\ sg_gs' = TRUE
    /\ sg_calls' = sg_calls + 1
    /\ UNCHANGED <<sg_bits, sg_heat>>

SgInit ==
    /\ sg_bits \in SgBits
    /\ sg_heat \in SgHeatLens
    /\ sg_sampler = "None"
    /\ sg_gs = FALSE
    /\ sg_runs = <<>>
    /\ sg_builds = 0
    /\ sg_calls = 0

SgOff ==
    /\ sg_bits = <<>>
    /\ sg_heat = 0
    /\ sg_sampler = "off"
    /\ sg_gs = FALSE
    /\ sg_runs = <<>>
    /\ sg_builds = 0
    /\ sg_calls = 0

----------------------------------------------------------------------------
(* CEAuto/wrangling.py: CeDataWrangler                                      *)

MaxAdds == 3

\* Structures: sym is the class under the symmetry of the lattice (0: the
\* structure does not map onto the primitive cell), image tells the
\* members of a class apart.
WrStructures == [sym : 0..3, image : 1..2]

\* corr_from_structure: classes 1 and 2 share one correlation vector.
CorrOf(st) == IF st.sym = 3 THEN <<1, -1>> ELSE <<1, 1>>

\* sm.fit of the site matcher of the cluster subspace
Fit(a, b) == a.sym = b.sym

\* StructureWrangler.process_entry: None (<<>>) when the structure cannot
\* be matched, else the entry with the data the expansion needs.
process_entry(st) ==
    IF st.sym = 0 THEN <<>>
    ELSE [refined_structure |-> st, correlations |-> CorrOf(st)]

\* The data of the entry handed to add_entry once process_entry returned:
\* filled in when the library works on the entry itself, untouched when it
\* builds a new entry.
RawData(st) == IF wr_lib = "in_place" THEN process_entry(st) ELSE <<>>

\* Variant: the correlation vectors alone decide.
DuplicatesOld_CorrOnly(old, data) == old.correlations = data.correlations

\* np.allclose(correlations) and sm.fit(refined structures)
DuplicatesOld(old, data) ==
    /\ old.correlations = data.correlations
    /\ Fit(old.refined_structure, data.refined_structure)

\* _check_structure_duplicacy(entry): the first duplicate in self.entries,
\* None (<<>>) without one; entry.data["correlations"] is read as soon as
\* there is an old entry to compare with.
CheckStructureDuplicacy(data) ==
    IF wr_entries = <<>> THEN [status |-> "ok", out |-> <<>>]
    ELSE IF data = <<>> THEN [status |-> "KeyError", out |-> <<>>]
    ELSE LET hits == {i \in 1..Len(wr_entries) : DuplicatesOld(wr_entries[i], data)}
         IN  [status |-> "ok",
              out |-> IF hits = {} THEN <<>>
                      ELSE wr_entries[CHOOSE i \in hits : \A j \in hits : i <= j]]

add_entry ==
    /\ wr_calls < MaxAdds
    /\ \E st \in WrStructures :
        LET processed_entry == process_entry(st)
            dupe == CheckStructureDuplicacy(RawData(st))
        IN  /\ wr_arg' = st
            /\ wr_before' = wr_entries
            /\ IF processed_entry = <<>>
               THEN wr_status' = "ok" /\ wr_entries' = wr_entries
               ELSE /\ wr_status' = dupe.status
                    /\ wr_entries' =
                          IF dupe.status = "ok" /\ dupe.out = <<>>
                          THEN Append(wr_entries, processed_entry)
                          ELSE wr_entries
    /\ wr_calls' = wr_calls + 1
    /\ UNCHANGED wr_lib

WrInit ==
    /\ wr_lib \in {"in_place", "new_entry"}
    /\ wr_entries = <<>>
    /\ wr_before = <<>>
    /\ wr_arg = <<>>
    /\ wr_status = "none"
    /\ wr_calls = 0

WrOff ==
    /\ wr_lib = "off"
    /\ wr_entries = <<>>
    /\ wr_before = <<>>
    /\ wr_arg = <<>>
    /\ wr_status = "none"
    /\ wr_calls = 0

----------------------------------------------------------------------------
(* CEAuto/calc_manager/base.py: BaseManager                                 *)

MaxTimeLimit == 3

NumEntries == 3

BmEntries == 1..NumEntries

BmCheckIntervals == {1, 2}

\* data_manager.get_eid_w_status(s)
get_eid_w_status(st, s) == {e \in BmEntries : st[e] = s}

\* Variant: nothing is marked.
set_status_Nothing(st, eids, s) == st

\* data_manager.set_status(eids, s)
set_status(st, eids, s) == [e \in BmEntries |-> IF e \in eids THEN s ELSE st[e]]

\* The end of run_df_entrees once the while loop of _run_tasks is left with
\* t_quota = q and the last entree_in_queue answer inq (<<>>: the loop body
\* never ran, `status` is unbound when the warning is printed).
BmLeaveLoop(q, inq, ran, eids) ==
    /\ bm_pc' = "done"
    /\ bm_t_quota' = q
    /\ bm_queue' = inq
    /\ IF q > 0
       THEN /\ bm_killed' = FALSE
            /\ bm_exc' = "none"
            /\ bm_ret' = <<q>>
            /\ bm_status' = set_status(bm_status, eids, "CL")
       ELSE /\ bm_killed' = TRUE
            /\ IF ran
               THEN /\ bm_exc' = "none"
                    /\ bm_ret' = <<q>>
                    /\ bm_status' = set_status(bm_status, eids, "CL")
               ELSE /\ bm_exc' = "UnboundLocalError"
                    /\ bm_ret' = <<>>
                    /\ bm_status' = bm_status

\* run_df_entrees when the status checker is past "calc".
BmAlreadyDone ==
    /\ bm_pc = "new"
    /\ bm_after
    /\ bm_pc' = "done"
    /\ bm_ret' = <<bm_time_limit>>
    /\ UNCHANGED <<bm_time_limit, bm_check_interval, bm_after, bm_status0,
                   bm_status, bm_eids, bm_submitted, bm_queue, bm_t_quota,
                   bm_killed, bm_exc, bm_n_submits, bm_n_checks, bm_slept>>

\* run_df_entrees up to the first sleep of _run_tasks.
BmSubmit ==
    /\ bm_pc = "new"
    /\ ~bm_after
    /\ bm_eids' = get_eid_w_status(bm_status, "CC")
    /\ bm_submitted' = bm_eids'
    /\ bm_n_submits' = bm_n_submits + 1
    /\ UNCHANGED <<bm_n_checks, bm_slept>>
    /\ IF bm_time_limit > 0
       THEN /\ bm_pc' = "waiting"
            /\ bm_queue' = bm_eids'
            /\ bm_t_quota' = bm_time_limit
            /\ UNCHANGED <<bm_status, bm_killed, bm_ret, bm_exc>>
       ELSE BmLeaveLoop(bm_time_limit, bm_eids', FALSE, bm_eids')
    /\ UNCHANGED <<bm_time_limit, bm_check_interval, bm_after, bm_status0>>

\* Variant: an empty queue does not end the loop.
BmStopPolling_Never(inq) == FALSE

\* if not np.any(status): break
BmStopPolling(inq) == inq = {}

\* One turn of the while loop: sleep, take the time off, ask the queue;
\* the calculations that ended during the sleep have left it.  The turn
\* that leaves the loop runs run_df_entrees to its end.
BmCheck ==
    /\ bm_pc = "waiting"
    /\ bm_slept' = bm_slept + bm_check_interval
    /\ bm_n_checks' = bm_n_checks + 1
    /\ UNCHANGED bm_n_submits
    /\ \E inq \in SUBSET bm_queue :
        LET q == bm_t_quota - bm_check_interval
        IN  IF ~BmStopPolling(inq) /\ q > 0
            THEN /\ bm_t_quota' = q
                 /\ bm_queue' = inq
                 /\ UNCHANGED <<bm_status, bm_pc, bm_killed, bm_ret, bm_exc,
                                bm_eids>>
            ELSE BmLeaveLoop(q, inq, TRUE, bm_eids) /\ UNCHANGED bm_eids
    /\ UNCHANGED <<bm_time_limit, bm_check_interval, bm_after, bm_status0,
                   bm_submitted>>

BmInit ==
    /\ bm_time_limit \in 0..MaxTimeLimit
    /\ bm_check_interval \in BmCheckIntervals
    /\ bm_after \in BOOLEAN
    /\ bm_status0 \in [BmEntries -> {"NC", "CC", "CL"}]
    /\ bm_status = bm_status0
    /\ bm_pc = "new"
    /\ bm_eids = {}
    /\ bm_submitted = {}
    /\ bm_queue = {}
    /\ bm_t_quota = 0
    /\ bm_killed = FALSE
    /\ bm_ret = <<>>
    /\ bm_exc = "none"
    /\ bm_n_submits = 0
    /\ bm_n_checks = 0
    /\ bm_slept = 0

BmOff ==
    /\ bm_time_limit = 0
    /\ bm_check_interval = 0
    /\ bm_after = FALSE
    /\ bm_status0 = <<>>
    /\ bm_status = <<>>
    /\ bm_pc = "off"
    /\ bm_eids = {}
    /\ bm_submitted = {}
    /\ bm_queue = {}
    /\ bm_t_quota = 0
    /\ bm_killed = FALSE
    /\ bm_ret = <<>>
    /\ bm_exc = "none"
    /\ bm_n_submits = 0
    /\ bm_n_checks = 0
    /\ bm_slept = 0

ProcOff == SgOff /\ WrOff /\ BmOff

LateOff == MOff /\ ProcOff

----------------------------------------------------------------------------
(* CEAuto/status_checker.py: StatusChecker                                  *)

\* StatusChecker.modules
modules == <<"gs", "enum", "write", "calc", "feat", "fit">>

\* modules.index(name)
ModuleIndex(name) == CHOOSE i \in 1..Len(modules) : modules[i] = name

StatusIters == 0..1

HistoryLens == 0..3

FactLens == 0..2

\* The rows of fact_df; a row is labelled by its position (RangeIndex).
FactRows == [iter_id : StatusIters, calc_status : {"NC", "CC", "CL", "SC"},
             module : {"enum", "gs"}]

FactTables == UNION {[1..n -> FactRows] : n \in FactLens}

\* The labels of the rows of a frame or of a column taken from it.
SeriesIndex(rows) ==
    {IF i = 1 THEN "0" ELSE IF i = 2 THEN "1" ELSE IF i = 3 THEN "2" ELSE "3"
     : i \in 1..Len(rows)}

\* Variant: membership among the values of the column.
SeriesContains_Values(rows, key) == \E i \in 1..Len(rows) : rows[i].module = key

\* `key in series`: pandas looks the key up among the labels of the series.
SeriesContains(rows, key) == key \in SeriesIndex(rows)

\* fact_df.iter_id.max()
MaxIterId(fact) ==
    CHOOSE k \in {fact[i].iter_id : i \in 1..Len(fact)} :
        \A i \in 1..Len(fact) : fact[i].iter_id <= k

\* _get_iter_id_last_module once the rows of the last iteration are known;
\* the exception leaves no value (<<>>).
LastModuleOf(max_iter_id, last_df, history_len) ==
    LET statuses == {last_df[i].calc_status : i \in 1..Len(last_df)}
        IsNC(r) == r.calc_status = "NC"
    IN  IF "NC" \in statuses
        THEN IF SeriesContains(SelectSeq(last_df, IsNC), "enum")
             THEN [status |-> "ok", out |-> <<max_iter_id, "enum">>]
             ELSE IF SeriesContains(SelectSeq(last_df, IsNC), "gs")
             THEN [status |-> "ok", out |-> <<max_iter_id, "gs">>]
             ELSE [status |-> "ValueError", out |-> <<>>]
        ELSE IF "CC" \in statuses
        THEN [status |-> "ok", out |-> <<max_iter_id, "write">>]
        ELSE IF "CL" \in statuses
        THEN [status |-> "ok", out |-> <<max_iter_id, "calc">>]
        ELSE IF history_len < max_iter_id \/ history_len > max_iter_id + 1
        THEN [status |-> "ValueError", out |-> <<>>]
        ELSE IF history_len = max_iter_id
        THEN [status |-> "ok", out |-> <<max_iter_id, "feat">>]
        ELSE [status |-> "ok", out |-> <<max_iter_id + 1, "fit">>]

\* StatusChecker._get_iter_id_last_module
get_iter_id_last_module(fact, history_len) ==
    IF Len(fact) = 0 THEN [status |-> "ok", out |-> <<0, "None">>]
    ELSE Only({Only({LastModuleOf(max_iter_id, last_df, history_len)
                     : last_df \in
                         {LET InLast(r) == r.iter_id = max_iter_id
                          IN  SelectSeq(fact, InLast)}})
               : max_iter_id \in {MaxIterId(fact)}})

\* StatusChecker.before(module_name)
before(fact, history_len, module_name) ==
    Only({IF last.status # "ok" THEN last
          ELSE IF last.out[2] = "None" THEN [status |-> "ok", out |-> TRUE]
          ELSE [status |-> "ok",
                out |-> ModuleIndex(last.out[2]) < ModuleIndex(module_name)]
          : last \in {get_iter_id_last_module(fact, history_len)}})

\* StatusChecker.after(module_name)
after(fact, history_len, module_name) ==
    Only({IF b.status # "ok" THEN b ELSE [status |-> "ok", out |-> ~b.out]
          : b \in {before(fact, history_len, module_name)}})

ModuleNames == {modules[i] : i \in 1..Len(modules)}

StatusCalls ==
    [fn : {"get_iter_id_last_module"},
     args : FactTables \X HistoryLens \X {"none"}]
    \cup [fn : {"before", "after"},
          args : FactTables \X HistoryLens \X ModuleNames]

CallLastModule ==
    /\ m_fn = "get_iter_id_last_module"
    /\ MReturn("get_iter_id_last_module",
               get_iter_id_last_module(m_args[1], m_args[2]))

CallBefore ==
    /\ m_fn = "before"
    /\ MReturn("before", before(m_args[1], m_args[2], m_args[3]))

CallAfter ==
    /\ m_fn = "after"
    /\ MReturn("after", after(m_args[1], m_args[2], m_args[3]))

----------------------------------------------------------------------------
(* Sublattice.enumerate_comps and enumerate_partitions                      *)

\* Fractions are counted in steps of 1/enum_fold; a bound of self.constraints
\* is a number of steps of 1/ConstrDen.
MaxFold == 4
MaxSpecies == 3
ConstrDen == 2

ConstrPairs == {c \in (0..ConstrDen) \X (0..ConstrDen) : c[1] <= c[2]}
ConstrLists == UNION {[1..n -> ConstrPairs] : n \in 1..MaxSpecies}

\* Variant: the last section is returned only at or above its lower bound.
LastSection_LowerChecked(enum_fold, constr, quota) ==
    IF quota * ConstrDen <= constr[2] * enum_fold
       /\ constr[1] * enum_fold <= quota * ConstrDen
    THEN <<<<quota>>>> ELSE <<>>

\* The n_part == 1 branch: ub = min(quota, ub); the rest of the quota is
\* returned when quota == ub, whatever the lower bound.
LastSection(enum_fold, constr, quota) ==
    IF quota * ConstrDen <= constr[2] * enum_fold
    THEN <<<<quota>>>> ELSE <<>>

RECURSIVE enumerate_partitions(_, _, _, _)
RECURSIVE AccumulateEnums(_, _, _, _, _, _)

\* The loop over this_level, from enum_x up to ub_int.
AccumulateEnums(n_part, enum_fold, constrs, quota, enum_x, ub_int) ==
    IF enum_x > ub_int THEN <<>>
    ELSE Only({(IF Len(next_levels) # 0 /\ Len(next_levels[1]) = n_part - 1
                THEN [k \in 1..Len(next_levels) |-> <<enum_x>> \o next_levels[k]]
                ELSE <<>>)
               \o AccumulateEnums(n_part, enum_fold, constrs, quota,
                                  enum_x + 1, ub_int)
               : next_levels \in {enumerate_partitions(n_part - 1, enum_fold,
                                      Tail(constrs), quota - enum_x)}})

enumerate_partitions(n_part, enum_fold, constrs, quota) ==
    IF n_part = 1 THEN LastSection(enum_fold, constrs[1], quota)
    ELSE AccumulateEnums(n_part, enum_fold, constrs, quota,
             \* lb_int = ceil(lb * enum_fold)
             (constrs[1][1] * enum_fold + ConstrDen - 1) \div ConstrDen,
             \* ub_int = floor(min(quota, ub) * enum_fold)
             IF quota * ConstrDen <= constrs[1][2] * enum_fold THEN quota
             ELSE (constrs[1][2] * enum_fold) \div ConstrDen)

enumerate_comps(constraints, fold) ==
    IF fold < Len(constraints) THEN [status |-> "ValueError", out |-> <<>>]
    ELSE [status |-> "ok",
          out |-> enumerate_partitions(Len(constraints), fold, constraints, fold)]

EnumCalls == [fn : {"enumerate_comps"}, args : ConstrLists \X (1..MaxFold)]

CallEnumerateComps ==
    /\ m_fn = "enumerate_comps"
    /\ MReturn("enumerate_comps", enumerate_comps(m_args[1], m_args[2]))

-----------------------------------------------------------------------------
(* Specifications                                                          *)

Init == GenInit /\ HOff /\ XlOff /\ LateOff

Next ==
    \/ GetGroundStateOccupancy /\ UNCHANGED <<hVars, xlVars, lateVars>>
    \/ GetGroundStateStructure /\ UNCHANGED <<hVars, xlVars, lateVars>>
    \/ GetUnfrozenSample /\ UNCHANGED <<hVars, xlVars, lateVars>>
    \/ Anneal /\ UNCHANGED <<hVars, xlVars, lateVars>>
    \/ HeatRun /\ UNCHANGED <<hVars, xlVars, lateVars>>
    \/ Deduplicate /\ UNCHANGED <<hVars, xlVars, lateVars>>

Spec == Init /\ [][Next]_vars

\* The generator with the ladder of the tests or with the long ladder.
LadderInit == GenInitWith({HeatTemps, LongLadder}) /\ HOff /\ XlOff /\ LateOff

SpecLadder == LadderInit /\ [][Next]_vars

HandlerInit == GenOff /\ HInit /\ XlOff /\ LateOff

HandlerNext ==
    \/ HConstruct /\ UNCHANGED <<genVars, xlVars, lateVars>>
    \/ HGetGroundState /\ UNCHANGED <<genVars, xlVars, lateVars>>
    \/ HGetUnfreezeSample /\ UNCHANGED <<genVars, xlVars, lateVars>>

SpecHandler == HandlerInit /\ [][HandlerNext]_vars

TranslateInit == GenOff /\ HOff /\ XlInit /\ LateOff

TranslateNext == XlTranslate /\ UNCHANGED <<genVars, hVars, lateVars>>

SpecTranslate == TranslateInit /\ [][TranslateNext]_vars

NumberInit == GenOff /\ HOff /\ XlOff /\ ProcOff /\ MStart(NumberCalls)

NumberNext ==
    \/ CallGCD /\ UNCHANGED <<genVars, hVars, xlVars, procVars>>
    \/ CallLCM /\ UNCHANGED <<genVars, hVars, xlVars, procVars>>
    \/ CallGCDList /\ UNCHANGED <<genVars, hVars, xlVars, procVars>>
    \/ CallLCMList /\ UNCHANGED <<genVars, hVars, xlVars, procVars>>
    \/ CallRationalize /\ UNCHANGED <<genVars, hVars, xlVars, procVars>>

SpecNumber == NumberInit /\ [][NumberNext]_vars

GridInit == GenOff /\ HOff /\ XlOff /\ ProcOff /\ MStart(GridCalls)

GridNext == CallIntegerGrid /\ UNCHANGED <<genVars, hVars, xlVars, procVars>>

SpecGrid == GridInit /\ [][GridNext]_vars

BasisInit == GenOff /\ HOff /\ XlOff /\ ProcOff /\ MStart(BasisCalls \cup IntGridsCalls)

BasisNext ==
    \/ CallIntegerBasis /\ UNCHANGED <<genVars, hVars, xlVars, procVars>>
    \/ CallMinFlipTable /\ UNCHANGED <<genVars, hVars, xlVars, procVars>>
    \/ CallNLinks /\ UNCHANGED <<genVars, hVars, xlVars, procVars>>
    \/ CallIntGrids /\ UNCHANGED <<genVars, hVars, xlVars, procVars>>

SpecBasis == BasisInit /\ [][BasisNext]_vars

SemigrandInit == GenOff /\ HOff /\ XlOff /\ MOff /\ SgInit /\ WrOff /\ BmOff

SemigrandNext ==
    \/ SgGetGroundStateOccupancy /\ UNCHANGED <<genVars, hVars, xlVars, mVars, wrVars, bmVars>>
    \/ SgGetUnfrozenSample /\ UNCHANGED <<genVars, hVars, xlVars, mVars, wrVars, bmVars>>

SpecSemigrand == SemigrandInit /\ [][SemigrandNext]_vars

WranglerInit == GenOff /\ HOff /\ XlOff /\ MOff /\ SgOff /\ WrInit /\ BmOff

WranglerNext == add_entry /\ UNCHANGED <<genVars, hVars, xlVars, mVars, sgVars, bmVars>>

SpecWrangler == WranglerInit /\ [][WranglerNext]_vars

ManagerInit == GenOff /\ HOff /\ XlOff /\ MOff /\ SgOff /\ WrOff /\ BmInit

ManagerNext ==
    \/ BmAlreadyDone /\ UNCHANGED <<genVars, hVars, xlVars, mVars, sgVars, wrVars>>
    \/ BmSubmit /\ UNCHANGED <<genVars, hVars, xlVars, mVars, sgVars, wrVars>>
    \/ BmCheck /\ UNCHANGED <<genVars, hVars, xlVars, mVars, sgVars, wrVars>>

SpecManager == ManagerInit /\ [][ManagerNext]_vars

\* time.sleep returns and the queue answers: a call that can take its next
\* step takes it.
SpecManagerFair == SpecManager /\ WF_vars(ManagerNext)

StatusInit == GenOff /\ HOff /\ XlOff /\ ProcOff /\ MStart(StatusCalls)

StatusNext ==
    \/ CallLastModule /\ UNCHANGED <<genVars, hVars, xlVars, procVars>>
    \/ CallBefore /\ UNCHANGED <<genVars, hVars, xlVars, procVars>>
    \/ CallAfter /\ UNCHANGED <<genVars, hVars, xlVars, procVars>>

SpecStatus == StatusInit /\ [][StatusNext]_vars

EnumInit == GenOff /\ HOff /\ XlOff /\ ProcOff /\ MStart(EnumCalls)

EnumNext == CallEnumerateComps /\ UNCHANGED <<genVars, hVars, xlVars, procVars>>

SpecEnum == EnumInit /\ [][EnumNext]_vars

----------------------------------------------------------------------------
(* Properties of McSampleGenerator                                         *)

Returned(o) == pc = "idle" /\ op = o /\ status = "ok"

RangeOf(s) == {s[i] : i \in 1..Len(s)}

HeatRuns == {i \in 1..Len(runs) : runs[i].kind = "heat"}
AnnealRuns == {i \in 1..Len(runs) : runs[i].kind = "anneal"}

CandidateStr(i) == StructureFromOccupancy(rand_occus[i])

\* C1: a call of get_ground_state_occupancy on a generator whose ground state
\* is cached returns the cached occupation and runs no annealing; over any
\* sequence of calls sampler.anneal is invoked at most once.
C1_IdempotentGroundState ==
    [][ /\ nAnneal' <= 1
        /\ (gs_occu # <<>> /\ pc = "idle" /\ op' = "gs_occu")
              => /\ pc' = "idle"
                 /\ status' = "ok"
                 /\ ret_occu' = gs_occu
                 /\ nAnneal' = nAnneal
                 /\ runs' = <<>>
        /\ (pc' = "idle" /\ op' = "gs_occu" /\ status' = "ok")
              => ret_occu' = gs_occu' ]_vars

C1_Witness ==
    /\ Returned("gs_occu")
    /\ cached
    /\ nAnneal = 1
    /\ ret_occu = gs_occu
    /\ gs_occu # <<>>

\* C2: no structure returned by get_unfrozen_sample is judged a duplicate of
\* a previously sampled structure or of a structure earlier in the list.
C2_NoDuplicateReturned ==
    Returned("unfrozen") =>
        \A i \in 1..Len(ret_strs) :
            /\ \A k \in 1..Len(arg_prev) :
                  ~IsDuplicate(arg_prev[k], ret_strs[i], remove_decorations)
            /\ \A j \in 1..(i - 1) :
                  ~IsDuplicate(ret_strs[j], ret_strs[i], remove_decorations)

\* Two distinct, symmetry-equivalent candidates were examined: one accepted.
C2_Witness ==
    /\ Returned("unfrozen")
    /\ \E i, j \in 1..examined :
          /\ i < j
          /\ rand_occus[i] # rand_occus[j]
          /\ IsDuplicate(CandidateStr(i), CandidateStr(j), remove_decorations)
          /\ i \in RangeOf(accepted)
          /\ j \notin RangeOf(accepted)

\* C3: get_unfrozen_sample returns at most num_samples structures and the
\* last candidate it examines is the one that completes the sample.
C3_AtMostNumSamples ==
    Returned("unfrozen") =>
        /\ Len(ret_strs) <= arg_ns
        /\ Len(accepted) = Len(ret_strs)
        /\ \A k \in 1..Len(accepted) :
              /\ accepted[k] <= examined
              /\ ret_strs[k] = CandidateStr(accepted[k])
        /\ Len(ret_strs) = arg_ns => examined = accepted[arg_ns]

C3_Witness ==
    /\ Returned("unfrozen")
    /\ Len(ret_strs) = arg_ns
    /\ examined < Len(rand_occus)

\* C4: when the pool is exhausted before num_samples structures are found
\* the call returns the partial list, and every candidate left out is a
\* duplicate of a previous structure or of one accepted before it.
C4_PartialOnExhaustion ==
    (pc = "idle" /\ op = "unfrozen" /\ Cardinality(HeatRuns) = Len(HeatTemps)) =>
        /\ status = "ok"
        /\ Len(ret_strs) < arg_ns =>
              /\ examined = Len(rand_occus)
              /\ \A i \in 1..Len(rand_occus) :
                    \/ i \in RangeOf(accepted)
                    \/ \E k \in 1..Len(arg_prev) :
                          IsDuplicate(arg_prev[k], CandidateStr(i),
                                      remove_decorations)
                    \/ \E k \in 1..Len(accepted) :
                          /\ accepted[k] < i
                          /\ IsDuplicate(ret_strs[k], CandidateStr(i),
                                         remove_decorations)

C4_Witness ==
    /\ Returned("unfrozen")
    /\ ret_strs = <<>>
    /\ arg_ns >= 1
    /\ examined = Len(rand_occus)
    /\ Len(rand_occus) = Len(HeatTemps)

\* C5: the list returned by get_unfrozen_sample never contains the structure
\* of the cached ground state nor a duplicate of it.
C5_GroundStateExcluded ==
    Returned("unfrozen") =>
        \A i \in 1..Len(ret_strs) :
            ~IsDuplicate(StructureFromOccupancy(gs_occu), ret_strs[i],
                         remove_decorations)

\* C6: once set, the cached ground state is never reset nor changed.
C6_GroundStatePersists ==
    [][gs_occu # <<>> => gs_occu' = gs_occu]_vars

\* The heating ladder has run from a cached ground state and left it.
C6_Witness ==
    /\ Returned("unfrozen")
    /\ cached
    /\ gs_occu # <<>>
    /\ init_occu # gs_occu
    /\ gs_occu \notin RangeOf(rand_occus)

\* C7: no heating run starts before annealing has completed and the ground
\* state is cached; a call that finds the ground state cached anneals not.
C7_AnnealBeforeHeat ==
    /\ pc = "heat" => (gs_occu # <<>> /\ nAnneal >= 1)
    /\ \A i \in HeatRuns :
          /\ gs_occu # <<>>
          /\ nAnneal >= 1
          /\ \A j \in AnnealRuns : j < i
    /\ cached => AnnealRuns = {}
    /\ (~cached /\ op = "unfrozen" /\ (pc \in {"heat", "dedup"} \/ status = "ok"))
          => AnnealRuns = {1}

C7_Witness ==
    /\ Returned("unfrozen")
    /\ ~cached
    /\ AnnealRuns = {1}
    /\ HeatRuns = 2..(Len(HeatTemps) + 1)

Integral(c) == \A sl \in 1..Len(c) : \A k \in 1..Len(c[sl]) : c[sl][k] % 10 = 0

\* C8: with integer target counts the ground-state occupation has one entry
\* per supercell site and exactly the target counts on every sublattice.
C8_CanonicalCountsKept ==
    (gs_occu # <<>> /\ Integral(counts)) =>
        /\ Len(gs_occu) = NumSites
        /\ \A sl \in 1..NumSublat : \A k \in 1..Len(Bits[sl]) :
              10 * SpeciesStat(gs_occu)[sl][k] = counts[sl][k]
        /\ Returned("gs_occu") => ret_occu = gs_occu

C8_Witness ==
    /\ Returned("gs_occu")
    /\ Integral(counts)
    /\ nAnneal = 1
    /\ ~cached
    /\ ret_occu = gs_occu
    /\ gs_occu # <<>>

----------------------------------------------------------------------------
(* Properties of the legacy handler and of the coordinate translation      *)

\* C9: a composition that does not fill some sublattice makes construction
\* fail with the composition-mismatch error, and no annealing run is made.
C9_MismatchRejected ==
    (h_pc # "new" /\ CountsMismatch(h_int_comp)) =>
        (h_status = "ValueError" /\ h_nAnneal = 0)

\* C10: translating a valid integer composition from format A to format B
\* and back to A reproduces it; the unconstrained coordinate [3, 1, 2] at
\* supercell size 6 has compstat [[3, 1, 2], [2, 4]] and composition
\* [[1/2, 1/6, 1/3], [1/3, 2/3]].
C10_TranslateRoundTrip ==
    /\ \A k \in 1..(Len(xl_hist) - 2) :
          xl_hist[k + 2].fmt = xl_hist[k].fmt => xl_hist[k + 2].val = xl_hist[k].val
    /\ \A k \in 1..(Len(xl_hist) - 1) :
          (xl_sc = 6 /\ xl_hist[k].fmt = "unconstr" /\ xl_hist[k].val = <<3, 1, 2>>) =>
              /\ xl_hist[k + 1].fmt = "compstat" =>
                    xl_hist[k + 1].val = << <<3, 1, 2>>, <<2, 4>> >>
              /\ xl_hist[k + 1].fmt = "composition" =>
                    xl_hist[k + 1].val =
                        << << <<1, 2>>, <<1, 6>>, <<1, 3>> >>, << <<1, 3>>, <<2, 3>> >> >>

C10_Witness ==
    /\ xl_sc = 6
    /\ Len(xl_hist) = 3
    /\ xl_hist[1] = [fmt |-> "unconstr", val |-> <<3, 1, 2>>]
    /\ xl_hist[2].fmt = "constr"
    /\ xl_hist[2].val = <<-3, 3>>
    /\ xl_hist[3] = xl_hist[1]

----------------------------------------------------------------------------
(* Properties of utils/math_utils.py                                       *)

Called(fn) == m_pc = "done" /\ m_fn = fn

ArgList == IF m_fn \in {"GCD", "LCM", "GCD_list", "LCM_list"}
           THEN [i \in 1..Len(m_args) |-> m_args[i]] ELSE <<>>

RECURSIVE Prod(_)
Prod(l) == IF l = <<>> THEN 1 ELSE Abs(l[1]) * Prod(Tail(l))

\* The greatest common divisor and the least common multiple of the
\* integers l[i] / 2, by their definitions.
TrueGcd(l) ==
    LET v == {Abs(l[i] \div 2) : i \in 1..Len(l)}
    IN  IF v = {0} THEN 0
        ELSE CHOOSE d \in 1..MaxAbsHalves :
                /\ \A x \in v : x % d = 0
                /\ \A e \in 1..MaxAbsHalves : (\A x \in v : x % e = 0) => e <= d

TrueLcm(l) ==
    LET v == {Abs(l[i] \div 2) : i \in 1..Len(l)}
        ms == {m \in 1..Prod(l) : \A x \in v : m % x = 0}
    IN  IF 0 \in v THEN 0
        ELSE CHOOSE m \in ms : \A n \in ms : m <= n

\* C15: GCD, LCM, GCD_list and LCM_list raise an invalid-input error
\* whenever one of their arguments is not an integer.
C15_NonIntegerRejected ==
    (/\ m_pc = "done"
     /\ m_fn \in {"GCD", "LCM", "GCD_list", "LCM_list"}
     /\ \E i \in 1..Len(ArgList) : NotInteger(ArgList[i]))
        => m_status = "ValueError"

\* C16: on integers GCD and GCD_list return the non-negative greatest
\* common divisor, LCM and LCM_list the non-negative least common multiple
\* (0 when an argument is 0), lists of one element included.
C16_GcdLcmCorrect ==
    (/\ m_pc = "done"
     /\ m_fn \in {"GCD", "LCM", "GCD_list", "LCM_list"}
     /\ \A i \in 1..Len(ArgList) : ~NotInteger(ArgList[i]))
        => /\ m_status = "ok"
           /\ m_out = 2 * (IF m_fn \in {"GCD", "GCD_list"}
                           THEN TrueGcd(ArgList) ELSE TrueLcm(ArgList))

\* Some numerator puts n / d within dtol of a.
Admits(d, k, tol) == \E n \in (-2 * d)..(2 * d) : Near(n, d, k, tol)

\* C17: rationalize_number returns (n, d) with 1 <= d <= dim_limiter and
\* |n/d - a| < dtol, d being the smallest denominator that admits such an n,
\* and raises exactly when no denominator up to dim_limiter admits one.
C17_RationalizeSmallest ==
    Called("rationalize_number") =>
        LET k == m_args[1]
            lim == m_args[2]
            tol == m_args[3]
        IN  IF \E d \in 1..lim : Admits(d, k, tol)
            THEN /\ m_status = "ok"
                 /\ m_out[2] \in 1..lim
                 /\ Near(m_out[1], m_out[2], k, tol)
                 /\ \A d \in 1..(m_out[2] - 1) : ~Admits(d, k, tol)
            ELSE m_status = "ValueError"

\* a = -2/3 within 1/100: the denominators 1 and 2 are passed over.
C17_Witness ==
    /\ Called("rationalize_number")
    /\ m_args[1] = -8
    /\ m_args[3] = <<1, 100>>
    /\ m_status = "ok"
    /\ m_out = <<-2, 3>>

Dot(a, b) == SumSeq([i \in 1..Len(a) |-> a[i] * b[i]])

\* The integer points of the box that lie on the hyperplane.
GridPoints(nv, rs, lim) ==
    {x \in [1..Len(nv) -> (-MaxGridAbs - 2)..(MaxGridAbs + 3)] :
        /\ \A i \in 1..Len(nv) : lim[i][1] <= x[i] /\ x[i] <= lim[i][2]
        /\ Dot(nv, x) = rs}

\* C13: get_integer_grid returns exactly the integer points within the
\* closed per-dimension bounds that satisfy normal . x = right_side, each
\* of them once, zero components of the normal vector included.
C13_GridExactComplete ==
    (Called("get_integer_grid") /\ Len(m_args[1]) >= 1) =>
        /\ m_status = "ok"
        /\ RangeOf(m_out) = GridPoints(m_args[1], m_args[2], m_args[3])
        /\ Cardinality(RangeOf(m_out)) = Len(m_out)

\* The same, for normal vectors without a zero component.
GridExactOnNonZeroNormal ==
    (/\ Called("get_integer_grid")
     /\ Len(m_args[1]) >= 1
     /\ \A i \in 1..Len(m_args[1]) : m_args[1][i] # 0)
        => /\ m_status = "ok"
           /\ RangeOf(m_out) = GridPoints(m_args[1], m_args[2], m_args[3])
           /\ Cardinality(RangeOf(m_out)) = Len(m_out)

\* x is an integer combination of the rows B, which have a non-zero
\* determinant on the columns cols: the solution c of c . B = x on those
\* columns is integral and gives x on every column.
InSpan(x, B, cols) ==
    LET M == Restrict(B, cols)
        xs == [j \in 1..Len(cols) |-> x[cols[j]]]
        c == [i \in 1..Len(B) |->
                 Det([r \in 1..Len(B) |-> IF r = i THEN xs ELSE M[r]])]
    IN  /\ \A i \in 1..Len(B) : Divisible(c[i], Det(M))
        /\ \A j \in 1..Len(x) :
               SumSeq([i \in 1..Len(B) |-> c[i] * B[i][j]]) = Det(M) * x[j]

\* C12: the vectors returned by get_integer_basis lie on the hyperplane
\* normal_vec . x = 0 and every integer vector of the hyperplane is an
\* integer combination of them.
C12_BasisGenerates ==
    Called("get_integer_basis") =>
        LET onPlane == {x \in [1..Len(m_args[1]) -> NormVals] :
                           Dot(m_args[1], x) = 0}
        IN  /\ \A i \in 1..Len(m_out) : Dot(m_args[1], m_out[i]) = 0
            /\ IF m_out = <<>>
               THEN \A x \in onPlane : \A i \in 1..Len(x) : x[i] = 0
               ELSE /\ PivotColumns(m_out) # {}
                    /\ LET cols == SetToSeq(CHOOSE S \in PivotColumns(m_out) :
                                                TRUE)
                       IN  \A x \in onPlane : InSpan(x, m_out, cols)

\* The charge normal of the space [[Li+, Mn3+, Ti4+], [P3-, O2-]].
C12_Witness ==
    /\ Called("get_integer_basis")
    /\ m_args = << <<-3, -1, -1>>, << <<1, 2>>, <<3>> >> >>
    /\ m_out = << <<0, 1, -1>>, <<-1, 2, 1>> >>

Balanced(operation) ==
    \A sl \in 1..Len(operation.from) :
        SumSeq(operation.from[sl]) = SumSeq(operation.to[sl])

ChargeChange(space, operation) ==
    SumSeq(Flatten([sl \in 1..Len(space) |-> [sp \in 1..Len(space[sl]) |->
        space[sl][sp] * (operation.to[sl][sp] - operation.from[sl][sp])]]))

\* C11: every operation of the minimal flip table removes as many species
\* as it adds on each sublattice and, in a charge-constrained space, leaves
\* the charge unchanged; get_n_links raises on any operation whose removed
\* and added totals differ on a sublattice.
C11_FlipConservation ==
    /\ Called("min_flip_table") =>
           \A b \in 1..Len(m_out) :
               /\ Balanced(m_out[b])
               /\ IsChargeConstred(m_args) => ChargeChange(m_args, m_out[b]) = 0
    /\ (/\ Called("get_n_links")
        /\ \E b \in 1..Len(m_args[2]) : ~Balanced(m_args[2][b]))
           => m_status = "ValueError"

\* The flip table followed by an operation that removes one Li+ and one O2-
\* and adds one Mn3+ only, on a composition that holds all of them.
C11_Witness ==
    /\ Called("get_n_links")
    /\ m_args[1] = << <<3, 1, 2>>, <<2, 4>> >>
    /\ Len(m_args[2]) = 3
    /\ Balanced(m_args[2][1]) /\ Balanced(m_args[2][2])
    /\ m_args[2][3] = [from |-> << <<1, 0, 0>>, <<0, 1>> >>,
                       to |-> << <<0, 1, 0>>, <<0, 0>> >>]
    /\ m_status = "ValueError"

\* C14 as stated: the integer grid of the space of the tests for a
\* supercell size smaller than min_sc_size raises EnumerationInfeasible.
C14_BelowMinSizeRaises ==
    (Called("int_grids") /\ m_args[1] = SpaceCharged /\ m_args[2] < MinScSize)
        => m_status = "EnumerationInfeasible"

\* C14 amended: int_grids raises EnumerationInfeasible exactly for the sizes
\* at which no composition with whole species counts is charge-neutral; at
\* any other size, below min_sc_size or not, it returns those compositions.
C14_RaisesOnlyWithoutSolution ==
    Called("int_grids") =>
        LET space == m_args[1]
            sc == m_args[2]
            Neutral(u) ==
                LET cs == [sl \in 1..Len(space) |->
                              [sp \in 1..Len(space[sl]) |->
                                  IF sp < Len(space[sl])
                                  THEN u[ExcitationId(space, sl, sp)]
                                  ELSE sc - SumSeq([q \in 1..(Len(space[sl]) - 1)
                                           |-> u[ExcitationId(space, sl, q)]])]]
                IN  /\ \A sl \in 1..Len(space) : cs[sl][Len(space[sl])] >= 0
                    /\ ChargeChange(space, [from |-> [sl \in 1..Len(space) |->
                                                [sp \in 1..Len(space[sl]) |-> 0]],
                                            to |-> cs]) = 0
            solutions == {u \in [1..Len(ChgOfExcitations(space)) -> 0..sc] :
                             Neutral(u)}
        IN  IF solutions = {}
            THEN m_status = "EnumerationInfeasible"
            ELSE m_status = "ok" /\ m_out = solutions

\* Size 5 of the space of the tests, below its min_sc_size of 6: the ten
\* compositions of int_grids_5 are returned.
C14_Witness ==
    /\ Called("int_grids")
    /\ m_args = <<SpaceCharged, 5>>
    /\ m_status = "ok"
    /\ m_out = {<<3, 1, 0>>, <<3, 0, 1>>, <<2, 3, 1>>, <<2, 2, 2>>, <<2, 1, 3>>,
                <<1, 4, 3>>, <<2, 0, 4>>, <<1, 3, 4>>, <<1, 2, 5>>, <<0, 5, 5>>}

\* Size 2 of the two-cation space: no neutral composition, the call raises.
IntGridsRaisesSomewhere ==
    /\ Called("int_grids")
    /\ m_args = <<SpaceTwoCation, 2>>
    /\ m_status = "EnumerationInfeasible"

\* C18: every annealing and heating run of the semigrand generator is made
\* by a sampler whose step type is "table-flip" when some allowed species
\* of some sublattice carries a nonzero charge and "flip" when none does;
\* the sampler is built once, on its first use, and kept afterwards.
C18_StepTypeChosenOnce ==
    LET charged == \E sl \in 1..Len(sg_bits) : \E i \in 1..Len(sg_bits[sl]) :
                       sg_bits[sl][i][2] # 0
        expected == IF charged THEN "table-flip" ELSE "flip"
    IN  /\ \A k \in 1..Len(sg_runs) : sg_runs[k][2] = expected
        /\ sg_runs # <<>> => (sg_builds = 1 /\ sg_sampler = expected)
        /\ sg_builds <= 1

\* A charged space after a ground-state call and a sampling call: one anneal
\* and the heat runs, all with the table-flip sampler built by the first.
C18_Witness ==
    /\ sg_calls = 2
    /\ sg_builds = 1
    /\ \E sl \in 1..Len(sg_bits) : \E i \in 1..Len(sg_bits[sl]) :
           sg_bits[sl][i][2] # 0
    /\ Len(sg_runs) >= 2
    /\ sg_runs[1] = <<"anneal", "table-flip">>
    /\ sg_runs[Len(sg_runs)] = <<"heat", "table-flip">>

\* C19: after any sequence of add_entry calls no two stored entries have
\* equal correlation vectors and matching structures; an add_entry of a
\* duplicate of a stored entry leaves the stored entries as they were, and
\* an entry that matches the lattice and duplicates no stored entry, equal
\* correlation vector or not, is stored.
C19_NoEquivalentStored ==
    LET Equivalent(a, b) ==
            CorrOf(a) = CorrOf(b) /\ Fit(a, b)
        stored(es) == {es[i].refined_structure : i \in 1..Len(es)}
    IN  /\ \A i, j \in 1..Len(wr_entries) :
              i < j => ~Equivalent(wr_entries[i].refined_structure,
                                   wr_entries[j].refined_structure)
        /\ wr_calls > 0 =>
              IF \E old \in stored(wr_before) : Equivalent(old, wr_arg)
              THEN wr_entries = wr_before
              ELSE wr_arg.sym # 0 =>
                      (/\ Len(wr_entries) = Len(wr_before) + 1
                       /\ wr_arg \in stored(wr_entries))

\* All of C19 holds when process_entry fills in the entry it is given.
WranglerInPlaceStoresAll == wr_lib = "in_place" => C19_NoEquivalentStored

\* The part of C19 that holds however process_entry treats its argument:
\* no two stored entries are equivalent and a duplicate changes nothing.
WranglerNeverStoresDuplicates ==
    /\ \A i, j \in 1..Len(wr_entries) :
          i < j => ~DuplicatesOld(wr_entries[i], wr_entries[j])
    /\ (\E i \in 1..Len(wr_before) :
            wr_arg # <<>> /\ wr_arg.sym # 0
            /\ DuplicatesOld(wr_before[i], process_entry(wr_arg)))
          => wr_entries = wr_before

\* Two inequivalent structures with one correlation vector, both stored.
WranglerStoresEqualCorrelations ==
    /\ Len(wr_entries) = 2
    /\ wr_entries[1].correlations = wr_entries[2].correlations
    /\ ~Fit(wr_entries[1].refined_structure, wr_entries[2].refined_structure)

\* What C20 says of a call made when the status checker is past "calc":
\* nothing is submitted, no status changes, the full time_limit is returned.
BmNothingDone ==
    /\ bm_submitted = {}
    /\ bm_status = bm_status0
    /\ bm_ret = <<bm_time_limit>>

\* C20 as stated: run_df_entrees marks an entry 'CL' only when its
\* calculation completed, so an entry still in the queue when the time
\* limit runs out is not marked 'CL'; past "calc" nothing is done.
C20_MarkedOnlyOnCompletion ==
    bm_pc = "done" =>
        IF bm_after THEN BmNothingDone
        ELSE \A e \in BmEntries :
                (e \in bm_queue /\ bm_t_quota <= 0 /\ bm_status0[e] = "CC")
                    => bm_status[e] # "CL"

\* What the code does: when run_df_entrees returns, every entry that had
\* status 'CC' is marked 'CL', those still in the queue at the time-out
\* (which are killed) included, no other status changes and the remaining
\* time is returned; past "calc" nothing is done.
ManagerMarksAllOnReturn ==
    (bm_pc = "done" /\ bm_exc = "none") =>
        IF bm_after THEN BmNothingDone
        ELSE /\ \A e \in BmEntries :
                   bm_status[e] = IF bm_status0[e] = "CC" THEN "CL"
                                  ELSE bm_status0[e]
             /\ bm_submitted = {e \in BmEntries : bm_status0[e] = "CC"}
             /\ bm_ret = <<bm_t_quota>>
             /\ bm_killed = (bm_t_quota <= 0)

\* The time limit ran out with an entry still in the queue: the tasks are
\* killed and the entry is marked 'CL'.
ManagerMarksKilledEntry ==
    /\ bm_pc = "done"
    /\ ~bm_after
    /\ bm_exc = "none"
    /\ bm_killed
    /\ \E e \in bm_queue : bm_status0[e] = "CC" /\ bm_status[e] = "CL"

\* A call past "calc" with entries waiting: it returns time_limit at once.
ManagerSkipsWhenAlreadyDone ==
    /\ bm_pc = "done"
    /\ bm_after
    /\ get_eid_w_status(bm_status, "CC") # {}
    /\ bm_ret = <<bm_time_limit>>

\* C21: the task runner reports success (a positive remaining time) exactly
\* when every entry left the queue within the time limit, and it calls
\* kill_tasks exactly when the limit ran out with an entry still queued; a
\* last allowed poll that finds the queue empty counts as finished.
C21_SuccessIffQueueEmptied ==
    (bm_pc = "done" /\ ~bm_after /\ bm_exc = "none") =>
        /\ (bm_ret[1] > 0) = (bm_queue = {})
        /\ bm_killed = (bm_queue # {})

\* The last poll the time limit allows found the queue empty, and the
\* tasks were killed and no time is reported left all the same.
ManagerKillsAfterEmptyLastPoll ==
    /\ bm_pc = "done"
    /\ ~bm_after
    /\ bm_submitted # {}
    /\ bm_queue = {}
    /\ bm_killed
    /\ bm_ret[1] <= 0

\* The result C30 describes, read from the rows of the largest iter_id.
ExpectedLastModule(fact, history_len) ==
    IF Len(fact) = 0 THEN [status |-> "ok", out |-> <<0, "None">>]
    ELSE LET k == MaxIterId(fact)
             last == {fact[i] : i \in {j \in 1..Len(fact) : fact[j].iter_id = k}}
             nc == {r \in last : r.calc_status = "NC"}
         IN  IF nc # {}
             THEN IF \E r \in nc : r.module = "enum"
                  THEN [status |-> "ok", out |-> <<k, "enum">>]
                  ELSE [status |-> "ok", out |-> <<k, "gs">>]
             ELSE IF \E r \in last : r.calc_status = "CC"
             THEN [status |-> "ok", out |-> <<k, "write">>]
             ELSE IF \E r \in last : r.calc_status = "CL"
             THEN [status |-> "ok", out |-> <<k, "calc">>]
             ELSE IF history_len = k
             THEN [status |-> "ok", out |-> <<k, "feat">>]
             ELSE IF history_len = k + 1
             THEN [status |-> "ok", out |-> <<k + 1, "fit">>]
             ELSE [status |-> "ValueError", out |-> <<>>]

\* C30: _get_iter_id_last_module returns (0, None) on an empty fact table
\* and otherwise decides from the rows of the largest iter_id: 'enum' or
\* 'gs' by the module of the 'NC' rows, else 'write' on a 'CC' row, else
\* 'calc' on a 'CL' row, else 'feat' or (next iteration, 'fit') by the
\* length of the history, and an error for any other length.
C30_LastModulePrecedence ==
    Called("get_iter_id_last_module") =>
        /\ m_status = ExpectedLastModule(m_args[1], m_args[2]).status
        /\ m_out = ExpectedLastModule(m_args[1], m_args[2]).out

\* Without 'NC' rows the result is the one C30 describes.
StatusPrecedenceWithoutNC ==
    (/\ Called("get_iter_id_last_module")
     /\ \A i \in 1..Len(m_args[1]) : m_args[1][i].calc_status # "NC")
        => /\ m_status = ExpectedLastModule(m_args[1], m_args[2]).status
           /\ m_out = ExpectedLastModule(m_args[1], m_args[2]).out

\* An 'NC' row made by the enumerator in the last iteration: ValueError.
StatusRaisesOnNC ==
    /\ Called("get_iter_id_last_module")
    /\ Len(m_args[1]) = 1
    /\ m_args[1][1].calc_status = "NC"
    /\ m_args[1][1].module = "enum"
    /\ m_status = "ValueError"

\* C22: before(m) is true exactly when module m has not been finished in
\* the current iteration, and after(m) is its negation; in an iteration
\* entered by the fit of the one before it, and on an empty fact table, no
\* module has been finished, so before(m) is true for every m.
C22_BeforeIffNotFinished ==
    (Called("before") \/ Called("after")) =>
        LET last == get_iter_id_last_module(m_args[1], m_args[2])
            finished ==
                IF last.out[2] = "None" \/ last.out[2] = "fit" THEN {}
                ELSE {modules[i] : i \in 1..ModuleIndex(last.out[2])}
        IN  last.status = "ok" =>
                /\ m_status = "ok"
                /\ m_out = IF m_fn = "before" THEN m_args[3] \notin finished
                           ELSE m_args[3] \in finished

\* Away from a last module 'fit', before and after are as C22 says.
StatusBeforeWithinIteration ==
    (Called("before") \/ Called("after")) =>
        LET last == get_iter_id_last_module(m_args[1], m_args[2])
        IN  (last.status = "ok" /\ last.out[2] # "fit") =>
                /\ m_status = "ok"
                /\ m_out = IF last.out[2] = "None" THEN m_fn = "before"
                           ELSE (m_fn = "before") =
                                (ModuleIndex(last.out[2]) < ModuleIndex(m_args[3]))

\* The fit of iteration 0 is done, iteration 1 has not begun: before("gs")
\* answers False.
StatusBeforeFalseAfterFit ==
    /\ Called("before")
    /\ m_args[3] = "gs"
    /\ get_iter_id_last_module(m_args[1], m_args[2]).out = <<1, "fit">>
    /\ m_out = FALSE

HandlerReturnsLowerSample ==
    /\ Len(h_unfrozen) >= 2
    /\ \E i \in 2..Len(h_unfrozen) :
          Enthalpy(h_unfrozen[i]) < Enthalpy(h_unfrozen[1])

\* C24: every composition returned by enumerate_comps(fold) gives each
\* species, the last one included, a fraction that is a multiple of 1/fold
\* within the species' lower and upper bound, and the fractions sum to 1.
C24_EveryFractionWithinBounds ==
    (Called("enumerate_comps") /\ m_status = "ok") =>
        \A k \in 1..Len(m_out) :
            /\ Len(m_out[k]) = Len(m_args[1])
            /\ SumSeq(m_out[k]) = m_args[2]
            /\ \A i \in 1..Len(m_out[k]) :
                  /\ m_out[k][i] \in 0..m_args[2]
                  /\ m_args[1][i][1] * m_args[2] <= m_out[k][i] * ConstrDen
                  /\ m_out[k][i] * ConstrDen <= m_args[1][i][2] * m_args[2]

\* A returned composition leaves the last species below its lower bound.
EnumCompsLastBelowLowerBound ==
    /\ Called("enumerate_comps") /\ m_status = "ok"
    /\ \E k \in 1..Len(m_out) :
          LET n == Len(m_out[k])
          IN  m_out[k][n] * ConstrDen < m_args[1][n][1] * m_args[2]

\* Every bound but the lower bound of the last species is kept.
EnumCompsOtherBoundsKept ==
    (Called("enumerate_comps") /\ m_status = "ok") =>
        \A k \in 1..Len(m_out) :
            /\ Len(m_out[k]) = Len(m_args[1])
            /\ SumSeq(m_out[k]) = m_args[2]
            /\ \A i \in 1..Len(m_out[k]) :
                  /\ m_out[k][i] \in 0..m_args[2]
                  /\ i < Len(m_out[k]) =>
                        m_args[1][i][1] * m_args[2] <= m_out[k][i] * ConstrDen
                  /\ m_out[k][i] * ConstrDen <= m_args[1][i][2] * m_args[2]

\* C25: for an integer normal vector of length d, get_integer_basis returns
\* exactly D integer vectors, D = d for the zero vector and d - 1 otherwise,
\* that are linearly independent and each orthogonal to the normal vector;
\* it never returns fewer than D vectors.
C25_ExactlyDIndependentVectors ==
    Called("get_integer_basis") =>
        /\ m_status = "ok"
        /\ Len(m_out) = (IF \A i \in 1..Len(m_args[1]) : m_args[1][i] = 0
                         THEN Len(m_args[1]) ELSE Len(m_args[1]) - 1)
        /\ m_out # <<>> => FullRank(m_out)
        /\ \A i \in 1..Len(m_out) :
              /\ Len(m_out[i]) = Len(m_args[1])
              /\ Dot(m_args[1], m_out[i]) = 0

\* A normal vector with a zero component and two components that share a
\* factor: one unit vector and one vector chosen from the pool.
C25_Witness ==
    /\ Called("get_integer_basis")
    /\ m_args[1] = <<2, 0, -2>>
    /\ Len(m_out) = 2
    /\ FullRank(m_out)
    /\ m_out[1] = <<0, 1, 0>>
    /\ Dot(m_args[1], m_out[2]) = 0

\* C26: whenever the generator is at rest with a known ground state, after
\* get_ground_state_occupancy or get_unfrozen_sample has returned, the
\* sampler's sample container is empty and the ground state is cached.
C26_SamplesClearedAtRest ==
    (Returned("gs_occu") \/ Returned("unfrozen")) =>
        /\ samples = <<>>
        /\ gs_occu # <<>>

\* The part of C26 that holds: the container is empty when
\* get_ground_state_occupancy has annealed, and a cached ground state is
\* never replaced.
GeneratorClearsAfterAnneal ==
    /\ [][Anneal => samples' = <<>>]_vars
    /\ [][gs_occu # <<>> => gs_occu' = gs_occu]_vars

\* get_unfrozen_sample has returned and the sampler still holds the samples
\* of the run at the last temperature.
GeneratorKeepsLastRunSamples ==
    /\ Returned("unfrozen")
    /\ gs_occu # <<>>
    /\ Len(samples) = (2 * NumStepsHeat) \div ThinBy(arg_ns)
    /\ samples # <<>>

\* C27: every run of get_unfrozen_sample at a heating temperature makes
\* 2 * num_steps_heat steps with the thinning interval
\* max(1, floor(len(heat_temp_series) * num_steps_heat / (10 * num_samples)))
\* and keeps only samples saved in the second half of the run, after the
\* first floor(n / 2) of the n saved; no call ends in an error.
C27_SecondHalfWithoutError ==
    /\ HeatRuns # {} => status \in {"running", "ok"}
    /\ \A i \in HeatRuns :
          /\ runs[i].nsteps = 2 * NumStepsHeat
          /\ runs[i].thin_by =
                Max(1, (Len(heat_temp_series) * NumStepsHeat) \div (10 * arg_ns))
          /\ Len(runs[i].kept_at) = runs[i].saved - (runs[i].saved \div 2)
          /\ \A k \in 1..Len(runs[i].kept_at) :
                runs[i].kept_at[k] > NumStepsHeat

\* The part of C27 that holds: steps, thinning interval and second half.
GeneratorKeepsSecondHalf ==
    \A i \in HeatRuns :
        /\ runs[i].nsteps = 2 * NumStepsHeat
        /\ runs[i].thin_by =
              Max(1, (Len(heat_temp_series) * NumStepsHeat) \div (10 * arg_ns))
        /\ Len(runs[i].kept_at) = runs[i].saved - (runs[i].saved \div 2)
        /\ \A k \in 1..Len(runs[i].kept_at) :
              runs[i].kept_at[k] > NumStepsHeat

\* On the long ladder the thinning interval exceeds the length of the run:
\* no sample is saved and reading the last one fails.
GeneratorFailsOnLongLadder ==
    /\ pc = "idle" /\ op = "unfrozen"
    /\ Len(heat_temp_series) = LongLadderLen
    /\ status = "IndexError"
    /\ runs[Len(runs)].thin_by > runs[Len(runs)].nsteps
    /\ runs[Len(runs)].saved = 0

IsHeatRun(r) == r.kind = "heat"

\* C28: get_unfrozen_sample visits the temperatures of heat_temp_series in
\* ladder order, each once; the first run starts from the cached ground
\* state and each later run from the last occupation saved by the run
\* before it; the sample container is cleared before each run, so that it
\* holds the samples of one run only.
C28_LadderOrderAndChaining ==
    op = "unfrozen" =>
        LET hs == SelectSeq(runs, IsHeatRun)
        IN  /\ Len(hs) <= Len(heat_temp_series)
            /\ \A i \in 1..Len(hs) :
                  /\ hs[i].T = heat_temp_series[i]
                  /\ hs[i].start = (IF i = 1 THEN gs_occu ELSE hs[i - 1].last)
            /\ Returned("unfrozen") => Len(hs) = Len(heat_temp_series)
            /\ hs # <<>> =>
                  /\ Len(samples) = hs[Len(hs)].saved
                  /\ hs[Len(hs)].saved > 0 =>
                        samples[Len(samples)] = hs[Len(hs)].last

\* A call that went through both temperatures, the second run starting
\* from an occupation other than the ground state.
C28_Witness ==
    /\ Returned("unfrozen")
    /\ LET hs == SelectSeq(runs, IsHeatRun)
       IN  /\ Len(hs) = 2
           /\ hs[1].T = 500 /\ hs[2].T = 1500
           /\ hs[1].start = gs_occu
           /\ hs[2].start = hs[1].last
           /\ hs[2].start # gs_occu
           /\ Len(samples) = hs[2].saved

\* ceil(time_limit / check_interval)
MaxPolls == (bm_time_limit + bm_check_interval - 1) \div bm_check_interval

\* C29: with a positive time_limit and check_interval _run_tasks ends; it
\* submits the entries once, before the first poll, sleeps one
\* check_interval before every poll, polls at most
\* ceil(time_limit / check_interval) times and polls no more after the
\* first poll that finds no entry in the queue.
C29_RunTasksTerminates ==
    /\ []((bm_time_limit > 0 /\ ~bm_after) =>
            /\ bm_n_submits = (IF bm_pc = "new" THEN 0 ELSE 1)
            /\ bm_n_checks > 0 => bm_n_submits = 1
            /\ bm_slept = bm_n_checks * bm_check_interval
            /\ bm_n_checks <= MaxPolls
            /\ (bm_pc = "waiting" /\ bm_n_checks > 0) => bm_queue # {}
            /\ bm_pc = "done" => bm_n_checks >= 1)
    /\ (bm_time_limit > 0) ~> (bm_pc = "done")

\* A call that polled as often as the time limit allows, for a calculation
\* still in the queue, and ended.
C29_Witness ==
    /\ bm_pc = "done" /\ ~bm_after
    /\ bm_time_limit = MaxTimeLimit /\ bm_check_interval = 1
    /\ bm_n_submits = 1
    /\ bm_n_checks = MaxPolls
    /\ bm_slept = bm_time_limit
    /\ bm_queue # {}


====
